---- MODULE Spec2Model ----
(***************************************************************************)
(* Model of eo (EnhanceOutput): a one-shot command-line filter that reads  *)
(* standard input, classifies it (JSON / table / plain text), renders      *)
(* structured input locally, sends the raw input to an Ollama service and  *)
(* prints the cleaned reply.                                               *)
(*                                                                         *)
(* A text is a sequence of one-character strings.  Fixed messages of the   *)
(* program that contain no newline are written as a one-element sequence   *)
(* holding the whole message.                                              *)
(***************************************************************************)
EXTENDS Integers, Sequences, FiniteSets, TLC

(***************************************************************************)
(* Bounds of the model.                                                    *)
(***************************************************************************)
MaxLen == 4

(***************************************************************************)
(* Text helpers.                                                           *)
(***************************************************************************)
\* std::isspace in the "C" locale, as used by operator>> and by regex \s
IsSpace(c) == c \in {" ", "\t", "\n", "\r"}

IsDigit(c) == c \in {"0", "1", "2", "3", "4", "5", "6", "7", "8", "9"}

\* all texts over the alphabet A of length at most n
TextsUpTo(A, n) == UNION {[1..k -> A] : k \in 0..n}

RECURSIVE Concat(_)
\* concatenation of a sequence of texts
Concat(ts) == IF ts = <<>> THEN <<>> ELSE Head(ts) \o Concat(Tail(ts))

RECURSIVE JoinWith(_, _)
\* the texts of ts joined by the text sep
JoinWith(ts, sep) ==
    IF ts = <<>> THEN <<>>
    ELSE IF Len(ts) = 1 THEN ts[1]
    ELSE ts[1] \o sep \o JoinWith(Tail(ts), sep)

RECURSIVE GetLines(_)
\* the lines std::getline(stream, line) delivers until the stream fails:
\* pieces ended by '\n', and a last unterminated piece when it is non-empty
GetLines(s) ==
    IF s = <<>> THEN <<>>
    ELSE IF \E k \in 1..Len(s) : s[k] = "\n"
         THEN LET k == CHOOSE k \in 1..Len(s) :
                           s[k] = "\n" /\ \A m \in 1..(k-1) : s[m] # "\n"
              IN  <<SubSeq(s, 1, k-1)>> \o GetLines(SubSeq(s, k+1, Len(s)))
         ELSE <<s>>

RECURSIVE Fields(_)
\* the fields operator>> extracts from a line: maximal runs of non-space
Fields(s) ==
    IF s = <<>> THEN <<>>
    ELSE IF IsSpace(s[1]) THEN Fields(Tail(s))
    ELSE LET stops == {k \in 1..Len(s) : IsSpace(s[k])}
             e == IF stops = {} THEN Len(s) + 1
                  ELSE CHOOSE k \in stops : \A m \in stops : k <= m
         IN  <<SubSeq(s, 1, e-1)>> \o Fields(SubSeq(s, e, Len(s)))

(***************************************************************************)
(* nlohmann::json::parse on a text (strict RFC 8259, no comments).         *)
(* A parse step returns [ok, next, val]: next is the index after the value.*)
(* Values: [t |-> "obj", m |-> members], [t |-> "arr", e |-> elements],    *)
(* [t |-> "str", s |-> text], [t |-> "num", s |-> lexeme],                 *)
(* [t |-> "lit", s |-> "true" | "false" | "null"].                         *)
(***************************************************************************)
IsJsonWs(c) == c \in {" ", "\t", "\n", "\r"}

RECURSIVE SkipWs(_, _)
SkipWs(s, i) == IF i <= Len(s) /\ IsJsonWs(s[i]) THEN SkipWs(s, i+1) ELSE i

Fail == [ok |-> FALSE, next |-> 0, val |-> [t |-> "none"]]

\* does the text w occur in s at index i
At(s, i, w) == i + Len(w) - 1 <= Len(s) /\ SubSeq(s, i, i + Len(w) - 1) = w

RECURSIVE DigitsEnd(_, _)
\* index after the run of digits starting at i
DigitsEnd(s, i) == IF i <= Len(s) /\ IsDigit(s[i]) THEN DigitsEnd(s, i+1) ELSE i

\* a JSON number: -? (0 | [1-9][0-9]*) (. [0-9]+)? ([eE] [+-]? [0-9]+)?
ParseNumber(s, i) ==
    LET \* a digit right after a leading 0 is a syntax error
        Done(d) ==
            IF d <= Len(s) /\ IsDigit(s[d]) THEN Fail
            ELSE [ok |-> TRUE, next |-> d,
                  val |-> [t |-> "num", s |-> SubSeq(s, i, d-1)]]
        ExpDigits(d0) ==
            IF DigitsEnd(s, d0) > d0 THEN Done(DigitsEnd(s, d0)) ELSE Fail
        ExpPart(c) ==
            IF c <= Len(s) /\ s[c] \in {"e", "E"}
            THEN ExpDigits(IF c + 1 <= Len(s) /\ s[c+1] \in {"+", "-"}
                           THEN c + 2 ELSE c + 1)
            ELSE Done(c)
        FracPart(b) ==
            IF b <= Len(s) /\ s[b] = "."
            THEN IF DigitsEnd(s, b+1) > b + 1 THEN ExpPart(DigitsEnd(s, b+1)) ELSE Fail
            ELSE ExpPart(b)
        IntPart(a) ==
            IF a <= Len(s) /\ s[a] = "0" THEN FracPart(a + 1)
            ELSE IF DigitsEnd(s, a) > a THEN FracPart(DigitsEnd(s, a)) ELSE Fail
    IN  IntPart(IF i <= Len(s) /\ s[i] = "-" THEN i + 1 ELSE i)

RECURSIVE StringEnd(_, _)
\* index of the closing quote of the string whose content starts at i,
\* 0 when the string is not well formed (control character, bad escape, end)
StringEnd(s, i) ==
    IF i > Len(s) THEN 0
    ELSE IF s[i] = "\"" THEN i
    ELSE IF s[i] \in {"\n", "\t", "\r"} THEN 0
    ELSE IF s[i] = "\\"
         THEN IF i + 1 <= Len(s)
                 /\ s[i+1] \in {"\"", "\\", "/", "b", "f", "n", "r", "t"}
              THEN StringEnd(s, i+2) ELSE 0
    ELSE StringEnd(s, i+1)

ParseString(s, i) ==
    LET e == StringEnd(s, i+1)
    IN  IF e = 0 THEN Fail
        ELSE [ok |-> TRUE, next |-> e + 1,
              val |-> [t |-> "str", s |-> SubSeq(s, i+1, e-1)]]

ParseLiteral(s, i) ==
    LET lits == {<<"t","r","u","e">>, <<"f","a","l","s","e">>, <<"n","u","l","l">>}
        hit  == {w \in lits : At(s, i, w)}
    IN  IF hit = {} THEN Fail
        ELSE LET w == CHOOSE w \in hit : TRUE
             IN  [ok |-> TRUE, next |-> i + Len(w), val |-> [t |-> "lit", s |-> w]]

RECURSIVE ParseValue(_, _), ParseElements(_, _, _), ParseMembers(_, _, _)

\* the elements of an array after '[' or ',': value, then ',' or ']'
ParseElements(s, i, acc) ==
    LET r == ParseValue(s, i)
        j == SkipWs(s, r.next)
    IN  IF ~r.ok \/ j > Len(s) THEN Fail
        ELSE IF s[j] = "]"
             THEN [ok |-> TRUE, next |-> j + 1,
                   val |-> [t |-> "arr", e |-> Append(acc, r.val)]]
        ELSE IF s[j] = "," THEN ParseElements(s, j + 1, Append(acc, r.val))
        ELSE Fail

\* the members of an object after '{' or ',': "key" : value, then ',' or '}'
ParseMembers(s, i, acc) ==
    LET Close(m, j) ==
            IF j > Len(s) THEN Fail
            ELSE IF s[j] = "}"
                 THEN [ok |-> TRUE, next |-> j + 1, val |-> [t |-> "obj", m |-> m]]
            ELSE IF s[j] = "," THEN ParseMembers(s, j + 1, m)
            ELSE Fail
        Member(rk, rv) ==
            IF rv.ok THEN Close(Append(acc, <<rk.val.s, rv.val>>), SkipWs(s, rv.next))
            ELSE Fail
        Colon(rk, c) ==
            IF c <= Len(s) /\ s[c] = ":" THEN Member(rk, ParseValue(s, c + 1))
            ELSE Fail
        Key(rk) == IF rk.ok THEN Colon(rk, SkipWs(s, rk.next)) ELSE Fail
        Start(k) == IF k <= Len(s) /\ s[k] = "\"" THEN Key(ParseString(s, k)) ELSE Fail
    IN  Start(SkipWs(s, i))

ParseValue(s, i0) ==
    LET i == SkipWs(s, i0)
    IN  IF i > Len(s) THEN Fail
        ELSE IF s[i] = "["
             THEN LET j == SkipWs(s, i + 1)
                  IN  IF j <= Len(s) /\ s[j] = "]"
                      THEN [ok |-> TRUE, next |-> j + 1,
                            val |-> [t |-> "arr", e |-> <<>>]]
                      ELSE ParseElements(s, i + 1, <<>>)
        ELSE IF s[i] = "{"
             THEN LET j == SkipWs(s, i + 1)
                  IN  IF j <= Len(s) /\ s[j] = "}"
                      THEN [ok |-> TRUE, next |-> j + 1,
                            val |-> [t |-> "obj", m |-> <<>>]]
                      ELSE ParseMembers(s, i + 1, <<>>)
        ELSE IF s[i] = "\"" THEN ParseString(s, i)
        ELSE IF s[i] = "-" \/ IsDigit(s[i]) THEN ParseNumber(s, i)
        ELSE ParseLiteral(s, i)

\* json::parse: one value, then only whitespace up to the end of the text;
\* ok = FALSE stands for the parse_error exception
JsonParse(s) ==
    LET r == ParseValue(s, 1)
    IN  IF r.ok /\ SkipWs(s, r.next) = Len(s) + 1 THEN r ELSE Fail

is_object(j) == j.t = "obj"

is_array(j) == j.t = "arr"

(***************************************************************************)
(* detect_format                                                           *)
(***************************************************************************)
\* the row-consistency loop: rows collected until a line's field count
\* differs from the first line's
RECURSIVE TableScan(_, _)
TableScan(lines, rows) ==
    IF lines = <<>> THEN [is_table |-> TRUE, rows |-> rows]
    ELSE LET fields == Fields(Head(lines))
         IN  IF rows = <<>> THEN TableScan(Tail(lines), <<fields>>)
             ELSE IF Len(fields) # Len(rows[1])
                  THEN [is_table |-> FALSE, rows |-> rows]
             ELSE TableScan(Tail(lines), Append(rows, fields))

\* detect_format without the is_object / is_array test
JsonDetected_AnyValue(input) == JsonParse(input).ok

\* the JSON test of detect_format
JsonDetected(input) ==
    LET j == JsonParse(input)
    IN  j.ok /\ (is_object(j.val) \/ is_array(j.val))

\* detect_format with rows.size() > 0 in the place of rows.size() > 1
detect_format_OneRow(input) ==
    IF input = <<>> THEN "PLAIN_TEXT"
    ELSE IF JsonDetected(input) THEN "JSON"
    ELSE LET sc == TableScan(GetLines(input), <<>>)
         IN  IF sc.is_table /\ Len(sc.rows) > 0 /\ Len(sc.rows[1]) > 1
             THEN "TABLE"
             ELSE "PLAIN_TEXT"

detect_format(input) ==
    IF input = <<>> THEN "PLAIN_TEXT"
    ELSE IF JsonDetected(input) THEN "JSON"
    ELSE LET sc == TableScan(GetLines(input), <<>>)
         IN  IF sc.is_table /\ Len(sc.rows) > 1 /\ Len(sc.rows[1]) > 1
             THEN "TABLE"
             ELSE "PLAIN_TEXT"

(***************************************************************************)
(* format_json: parse, then basic_json::dump(indent).  The default object  *)
(* type of the library is std::map, so the members of an object are kept   *)
(* sorted by key (byte order) and a repeated key keeps its last value.     *)
(***************************************************************************)
\* the characters of the model in byte order
ByteOrder == <<"\t", "\n", "\r", " ", "\"", "$", "*", "+", ",", "-", ".", "/",
               "0", "1", "2", "3", "4", "5", "6", "7", "8", "9", ":", "<", ">",
               "E", "N", "[", "\\", "]", "_", "<BT>",
               "a", "b", "c", "d", "e", "f", "g", "h", "i", "k", "l", "m", "n",
               "o", "p", "r", "s", "t", "u", "w", "x", "y", "{", "|", "}">>

Ord(c) == CHOOSE k \in 1..Len(ByteOrder) : ByteOrder[k] = c

RECURSIVE TextLess(_, _)
\* std::less<std::string>: lexicographic byte order
TextLess(a, b) ==
    IF b = <<>> THEN FALSE
    ELSE IF a = <<>> THEN TRUE
    ELSE IF a[1] = b[1] THEN TextLess(Tail(a), Tail(b))
    ELSE Ord(a[1]) < Ord(b[1])

RECURSIVE JsonUnescape(_)
\* the value of a string token: the escapes of the lexeme decoded
JsonUnescape(u) ==
    IF u = <<>> THEN <<>>
    ELSE IF u[1] = "\\"
         THEN LET c == u[2]
                  d == CASE c = "n" -> "\n" [] c = "t" -> "\t" [] c = "r" -> "\r"
                         [] c = "b" -> "<BS>" [] c = "f" -> "\f" [] OTHER -> c
              IN  <<d>> \o JsonUnescape(SubSeq(u, 3, Len(u)))
    ELSE <<u[1]>> \o JsonUnescape(Tail(u))

RECURSIVE JsonEscape_QuoteUnescaped(_)
\* dump of a string value that writes the quote character as it is
JsonEscape_QuoteUnescaped(u) ==
    IF u = <<>> THEN <<>>
    ELSE LET c == u[1]
             e == CASE c = "\n" -> <<"\\", "n">> [] c = "\t" -> <<"\\", "t">>
                    [] c = "\r" -> <<"\\", "r">> [] c = "<BS>" -> <<"\\", "b">>
                    [] c = "\f" -> <<"\\", "f">>
                    [] c = "\\" -> <<"\\", "\\">> [] OTHER -> <<c>>
         IN  e \o JsonEscape_QuoteUnescaped(Tail(u))

RECURSIVE JsonEscape(_)
\* dump of a string value: quote, backslash and control characters escaped
JsonEscape(u) ==
    IF u = <<>> THEN <<>>
    ELSE LET c == u[1]
             e == CASE c = "\n" -> <<"\\", "n">> [] c = "\t" -> <<"\\", "t">>
                    [] c = "\r" -> <<"\\", "r">> [] c = "<BS>" -> <<"\\", "b">>
                    [] c = "\f" -> <<"\\", "f">> [] c = "\"" -> <<"\\", "\"">>
                    [] c = "\\" -> <<"\\", "\\">> [] OTHER -> <<c>>
         IN  e \o JsonEscape(Tail(u))

RECURSIVE MapInsert(_, _, _)
\* std::map operator[](key) = value on the sorted member list m
MapInsert(m, key, val) ==
    IF m = <<>> THEN <<<<key, val>>>>
    ELSE IF m[1][1] = key THEN <<<<key, val>>>> \o Tail(m)
    ELSE IF TextLess(key, m[1][1]) THEN <<<<key, val>>>> \o m
    ELSE <<m[1]>> \o MapInsert(Tail(m), key, val)

RECURSIVE Store(_), StoreMembers(_, _)
\* the basic_json value built from a parsed value: string escapes decoded,
\* object members moved into the map
Store(v) ==
    CASE v.t = "obj" -> [t |-> "obj", m |-> StoreMembers(v.m, <<>>)]
      [] v.t = "arr" -> [t |-> "arr", e |-> [k \in 1..Len(v.e) |-> Store(v.e[k])]]
      [] v.t = "str" -> [t |-> "str", s |-> JsonUnescape(v.s)]
      [] OTHER -> v

StoreMembers(ms, acc) ==
    IF ms = <<>> THEN acc
    ELSE StoreMembers(Tail(ms), MapInsert(acc, JsonUnescape(ms[1][1]), Store(ms[1][2])))

\* nlohmann::json::parse(text): ok = FALSE stands for the thrown parse_error
json_parse(s) ==
    LET r == JsonParse(s)
    IN  IF r.ok THEN [ok |-> TRUE, val |-> Store(r.val)] ELSE [ok |-> FALSE, val |-> [t |-> "none"]]

Spaces(n) == [k \in 1..n |-> " "]

\* dump of a number read from an integer lexeme; "-0" is the integer 0.
\* Lexemes with a fraction or an exponent are not among the inputs of the model.
DumpNumber(lex) == IF lex = <<"-", "0">> THEN <<"0">> ELSE lex

RECURSIVE Dump(_, _, _)
\* basic_json::dump(indent) with indent > 0, at the current indentation cur
Dump(v, indent, cur) ==
    CASE v.t = "obj" ->
           IF v.m = <<>> THEN <<"{", "}">>
           ELSE <<"{", "\n">>
                \o JoinWith([k \in 1..Len(v.m) |->
                                Spaces(cur + indent) \o <<"\"">> \o JsonEscape(v.m[k][1])
                                \o <<"\"", ":", " ">> \o Dump(v.m[k][2], indent, cur + indent)],
                            <<",", "\n">>)
                \o <<"\n">> \o Spaces(cur) \o <<"}">>
      [] v.t = "arr" ->
           IF v.e = <<>> THEN <<"[", "]">>
           ELSE <<"[", "\n">>
                \o JoinWith([k \in 1..Len(v.e) |->
                                Spaces(cur + indent) \o Dump(v.e[k], indent, cur + indent)],
                            <<",", "\n">>)
                \o <<"\n">> \o Spaces(cur) \o <<"]">>
      [] v.t = "str" -> <<"\"">> \o JsonEscape(v.s) \o <<"\"">>
      [] v.t = "num" -> DumpNumber(v.s)
      [] OTHER -> v.s

\* the diagnostic of format_json; the text of e.what() follows the prefix
InvalidJsonPrefix == <<"Error: Invalid JSON">>

format_json(input, terminal_width) ==
    LET j == json_parse(input)
        indent == IF terminal_width < 100 THEN 2 ELSE 4
    IN  IF j.ok THEN Dump(j.val, indent, 0)
        ELSE InvalidJsonPrefix \o <<" - ", "parse_error">>

(***************************************************************************)
(* format_table.  A size_t value v is represented by the integer v when    *)
(* v < 2^63 and by v - 2^64 otherwise, so that a subtraction that wraps    *)
(* around shows as a negative number.                                      *)
(***************************************************************************)
Max(a, b) == IF a >= b THEN a ELSE b

Min(a, b) == IF a <= b THEN a ELSE b

RECURSIVE CollapseSpaces(_)
\* std::regex_replace(line, "\\s+", " ")
CollapseSpaces(s) ==
    IF s = <<>> THEN <<>>
    ELSE IF IsSpace(s[1])
         THEN IF Len(s) >= 2 /\ IsSpace(s[2]) THEN CollapseSpaces(Tail(s))
              ELSE <<" ">> \o CollapseSpaces(Tail(s))
    ELSE <<s[1]>> \o CollapseSpaces(Tail(s))

RECURSIVE SplitSpace(_)
\* the pieces std::getline(line_stream, field, ' ') delivers
SplitSpace(s) ==
    IF s = <<>> THEN <<>>
    ELSE LET sp == {k \in 1..Len(s) : s[k] = " "}
         IN  IF sp = {} THEN <<s>>
             ELSE LET k == CHOOSE k \in sp : \A m \in sp : k <= m
                  IN  <<SubSeq(s, 1, k-1)>> \o SplitSpace(SubSeq(s, k+1, Len(s)))

\* the non-empty fields of one line
TableFields(line) == SelectSeq(SplitSpace(CollapseSpaces(line)), LAMBDA f : f # <<>>)

\* the rows of the input: the field lists of the lines that have fields
TableRows(input) ==
    SelectSeq([k \in 1..Len(GetLines(input)) |-> TableFields(GetLines(input)[k])],
              LAMBDA r : r # <<>>)

\* col_widths has rows[0].size() entries; a longer row indexes past its end
TableOutOfBounds(rows) == \E i \in 1..Len(rows) : Len(rows[i]) > Len(rows[1])

\* the maximum field length of column j over the rows that have a column j
MaxWidth(rows, j) ==
    LET ls == {Len(rows[i][j]) : i \in {i \in 1..Len(rows) : j <= Len(rows[i])}}
    IN  IF ls = {} THEN 0 ELSE CHOOSE l \in ls : \A m \in ls : l >= m

RECURSIVE SumWidths(_)
\* for (size_t w : col_widths) total_width += w + 2;
SumWidths(ws) == IF ws = <<>> THEN 0 ELSE ws[1] + 2 + SumWidths(Tail(ws))

\* w = std::max<size_t>(w - reduce_per_col, 5): the difference wraps around
\* when w < reduce_per_col, and the wrapped value is the larger operand
ShrinkWidth(w, reduce_per_col) ==
    IF w - reduce_per_col < 0 THEN w - reduce_per_col
    ELSE Max(w - reduce_per_col, 5)

\* the column widths after the terminal-width adjustment
ColWidths(rows, terminal_width) ==
    LET col_widths == [j \in 1..Len(rows[1]) |-> MaxWidth(rows, j)]
        total_width == SumWidths(col_widths)
        excess == total_width - terminal_width + Len(col_widths)
        reduce_per_col == (excess \div Len(col_widths)) + 1
    IN  IF total_width > terminal_width
        THEN [j \in 1..Len(col_widths) |-> ShrinkWidth(col_widths[j], reduce_per_col)]
        ELSE col_widths

\* rows[i][j].substr(0, w), then std::left << std::setw(w + 2): the size_t
\* sum converted to int is w + 2 in this representation, and a width that is
\* not larger than the cell pads nothing
TableCell(field, w) ==
    LET cell == IF w < 0 THEN field ELSE SubSeq(field, 1, Min(w, Len(field)))
    IN  cell \o Spaces(Max(0, w + 2 - Len(cell)))

\* defined when no row is longer than the first (see TableOutOfBounds)
format_table(input, terminal_width) ==
    LET rows == TableRows(input)
    IN  IF rows = <<>> THEN <<>>
        ELSE LET col_widths == ColWidths(rows, terminal_width)
             IN  Concat([i \in 1..Len(rows) |->
                    Concat([j \in 1..Len(rows[i]) |-> TableCell(rows[i][j], col_widths[j])])
                    \o <<"\n">>])

(***************************************************************************)
(* src/eo.cpp, the single-file variant of the program: its detect_format   *)
(* answers TABLE for any input whose first line holds the words Metric and *)
(* Value, and its format_table has no terminal-width adjustment.           *)
(***************************************************************************)
Metric == <<"M", "e", "t", "r", "i", "c">>

Value == <<"V", "a", "l", "u", "e">>

\* line.find(w) != std::string::npos
Found(line, w) == \E i \in 1..Len(line) : At(line, i, w)

detect_format_eo(input) ==
    IF input = <<>> THEN "PLAIN_TEXT"
    ELSE IF input[1] \in {"{", "["} /\ JsonParse(input).ok THEN "JSON"
    ELSE IF Found(Head(GetLines(input)), Metric) /\ Found(Head(GetLines(input)), Value)
         THEN "TABLE"
    ELSE LET sc == TableScan(GetLines(input), <<>>)
         IN  IF sc.is_table /\ Len(sc.rows) > 1 /\ Len(sc.rows[1]) > 1
             THEN "TABLE"
             ELSE "PLAIN_TEXT"

\* the number of fields of the longest row
LongestRow(rows) ==
    CHOOSE n \in {Len(rows[i]) : i \in 1..Len(rows)} :
        \A i \in 1..Len(rows) : Len(rows[i]) <= n

\* the values the width loop leaves at the indexes 0 .. LongestRow - 1: the
\* first rows[0].size() of them are elements of col_widths, the others are
\* the memory behind the vector, holding max(stale, row[i].size())
ColWidthsEo(rows, stale) ==
    [j \in 1..LongestRow(rows) |->
        IF j <= Len(rows[1]) THEN MaxWidth(rows, j) ELSE Max(stale, MaxWidth(rows, j))]

\* ss << std::left << std::setw(col_widths[j] + 2) << rows[i][j];
TableCellEo(field, w) == field \o Spaces(Max(0, w + 2 - Len(field)))

format_table_eo(rows, col_widths) ==
    Concat([i \in 1..Len(rows) |->
        Concat([j \in 1..Len(rows[i]) |-> TableCellEo(rows[i][j], col_widths[j])])
        \o <<"\n">>])

(***************************************************************************)
(* The rewrite passes enhance_with_ai applies to the model reply.  The     *)
(* backtick is written "<BT>" and the ESC control character "<ESC>".       *)
(* A matcher gives, for a text and a start index, the index after the      *)
(* match that the regular expression finds at that index, or 0.            *)
(***************************************************************************)
\* smallest index k >= i with s[k] in the set C, or Len(s) + 1
FirstIn(s, i, C) ==
    LET hits == {k \in i..Len(s) : s[k] \in C}
    IN  IF hits = {} THEN Len(s) + 1 ELSE CHOOSE k \in hits : \A m \in hits : k <= m

\* smallest index k >= i with s[k] not in the set C, or Len(s) + 1
FirstNotIn(s, i, C) ==
    LET hits == {k \in i..Len(s) : s[k] \notin C}
    IN  IF hits = {} THEN Len(s) + 1 ELSE CHOOSE k \in hits : \A m \in hits : k <= m

LineTerminators == {"\n", "\r"}

\* the assertion $ under std::regex::multiline
AtLineEnd(s, i) == i = Len(s) + 1 \/ (i <= Len(s) /\ s[i] \in LineTerminators)

ThinkOpen == <<"<", "t", "h", "i", "n", "k", ">">>

ThinkClose == <<"<", "/", "t", "h", "i", "n", "k", ">">>

\* <think>[^<]*</think>
think_regex(s, i) ==
    LET j == FirstIn(s, i + Len(ThinkOpen), {"<"})
    IN  IF At(s, i, ThinkOpen) /\ At(s, j, ThinkClose) THEN j + Len(ThinkClose) ELSE 0

RECURSIVE unescape_from(_, _)
\* the loop of unescape_string from index i on
unescape_from(s, i) ==
    IF i > Len(s) THEN <<>>
    ELSE IF s[i] = "\\" /\ i + 1 <= Len(s)
         THEN CASE s[i+1] = "\\" -> <<"\\">> \o unescape_from(s, i + 2)
                [] s[i+1] = "n" -> <<"\n">> \o unescape_from(s, i + 2)
                [] s[i+1] = "t" -> <<"\t">> \o unescape_from(s, i + 2)
                [] s[i+1] = "r" -> <<"\r">> \o unescape_from(s, i + 2)
                [] s[i+1] = "0" ->
                     IF i + 3 <= Len(s) /\ s[i+2] = "3" /\ s[i+3] = "3"
                     THEN <<"<ESC>">> \o unescape_from(s, i + 4)
                     ELSE <<s[i]>> \o unescape_from(s, i + 1)
                [] OTHER -> <<s[i]>> \o unescape_from(s, i + 1)
    ELSE <<s[i]>> \o unescape_from(s, i + 1)

unescape_string(input) == unescape_from(input, 1)

NoteWord == <<"N", "o", "t", "e", ":">>

\* \n*Note:.*$ (multiline): '.' matches no line terminator
note_regex(s, i) ==
    LET j == FirstNotIn(s, i, {"\n"})
    IN  IF At(s, j, NoteWord) THEN FirstIn(s, j + Len(NoteWord), LineTerminators) ELSE 0

Fence == <<"<BT>", "<BT>", "<BT>">>

Letters == {"a", "b", "c", "d", "e", "f", "g", "h", "i", "j", "k", "l", "m",
            "n", "o", "p", "q", "r", "s", "t", "u", "v", "w", "x", "y", "z",
            "A", "B", "C", "D", "E", "F", "G", "H", "I", "J", "K", "L", "M",
            "N", "O", "P", "Q", "R", "S", "T", "U", "V", "W", "X", "Y", "Z"}

IsAlnum(c) == c \in Letters \/ IsDigit(c)

\* ```[a-zA-Z0-9]*\n?[^`]*?```: everything between the fences is matched by
\* classes that exclude the backtick, so the closing fence starts at the
\* first backtick after the opening one
backtick_regex(s, i) ==
    LET j == FirstIn(s, i + 3, {"<BT>"})
    IN  IF At(s, i, Fence) /\ At(s, j, Fence) THEN j + 3 ELSE 0

\* ```[a-zA-Z0-9]*\n?|\n?```
standalone_backtick_regex(s, i) ==
    IF At(s, i, Fence)
    THEN LET j == FirstNotIn(s, i + 3, Letters \cup {"0","1","2","3","4","5","6","7","8","9"})
         IN  IF j <= Len(s) /\ s[j] = "\n" THEN j + 1 ELSE j
    ELSE IF At(s, i, <<"\n">> \o Fence) THEN i + 4
    ELSE 0

Stars == <<"*", "*">>

\* \*\*([^\*]+)\*\*
bold_regex(s, i) ==
    LET j == FirstIn(s, i + 2, {"*"})
    IN  IF At(s, i, Stars) /\ j > i + 2 /\ At(s, j, Stars) THEN j + 2 ELSE 0

BoldOn == <<"<ESC>", "[", "1", "m">>

Reset == <<"<ESC>", "[", "0", "m">>

\* "\033[1m$1\033[0m" for a match of bold_regex at i..e-1
BoldReplace(s, i, e) == BoldOn \o SubSeq(s, i + 2, e - 3) \o Reset

\* std::map<std::string, std::string> color_codes, in key order
color_codes == << <<<<"b", "l", "u", "e">>, <<"<ESC>", "[", "3", "4", "m">> >>,
                  <<<<"g", "r", "e", "e", "n">>, <<"<ESC>", "[", "3", "2", "m">> >>,
                  <<<<"r", "e", "d">>, <<"<ESC>", "[", "3", "1", "m">> >>,
                  <<<<"y", "e", "l", "l", "o", "w">>, <<"<ESC>", "[", "3", "3", "m">> >> >>

\* color + "\\$$   \\*\\*([^\\*]+)\\*\\*\\   $$", i.e. the regular expression
\*   <color> \$ $ "   " \*\* ([^\*]+) \*\* "   " $ $
\* a literal dollar sign, the end-of-line assertion, three spaces, the bold
\* marker, three spaces and the end-of-line assertion (twice)
color_bold_regex(color, s, i) ==
    LET a == i + Len(color)
        b == a + 1
        c == b + 3
        j == FirstIn(s, c + 2, {"*"})
        e == j + 2 + 3
    IN  IF /\ At(s, i, color)
           /\ At(s, a, <<"$">>)
           /\ AtLineEnd(s, b)
           /\ At(s, b, <<" ", " ", " ">>)
           /\ At(s, c, Stars) /\ j > c + 2 /\ At(s, j, Stars)
           /\ At(s, j + 2, <<" ", " ", " ">>)
           /\ AtLineEnd(s, e)
        THEN e ELSE 0

\* code + "\033[1m$1\033[0m" for a match of color_bold_regex at i..e-1
ColorReplace(color, code, s, i, e) ==
    code \o BoldOn \o SubSeq(s, i + Len(color) + 6, e - 6) \o Reset

\* \|_+\|
table_border_regex(s, i) ==
    LET j == FirstNotIn(s, i + 1, {"_"})
    IN  IF At(s, i, <<"|">>) /\ j > i + 1 /\ At(s, j, <<"|">>) THEN j + 1 ELSE 0

\* \|[- ]+\|[- ]+\|
table_header_regex(s, i) ==
    LET j == FirstNotIn(s, i + 1, {"-", " "})
        k == FirstNotIn(s, j + 1, {"-", " "})
    IN  IF /\ At(s, i, <<"|">>) /\ j > i + 1 /\ At(s, j, <<"|">>)
           /\ k > j + 1 /\ At(s, k, <<"|">>)
        THEN k + 1 ELSE 0

\* \|<space>
table_row_start(s, i) == IF At(s, i, <<"|", " ">>) THEN i + 2 ELSE 0

\* <space>\|
table_row_end(s, i) == IF At(s, i, <<" ", "|">>) THEN i + 2 ELSE 0

\* <space>\|<space>
table_cell_divider(s, i) == IF At(s, i, <<" ", "|", " ">>) THEN i + 3 ELSE 0

TrimChars == {" ", "\n", "\r", "\t"}

\* a trim that erases one character at most at either end
Trim_OneEach(s) ==
    LET a == IF s # <<>> /\ s[1] \in TrimChars THEN 2 ELSE 1
        b == IF Len(s) >= a /\ s[Len(s)] \in TrimChars THEN Len(s) - 1 ELSE Len(s)
    IN  SubSeq(s, a, b)

\* a trim that erases at the front only
Trim_LeadingOnly(s) == SubSeq(s, FirstNotIn(s, 1, TrimChars), Len(s))

\* response.erase(0, find_first_not_of(..)); response.erase(find_last_not_of(..) + 1)
\* (npos erases everything in the first call; npos + 1 is 0 in the second)
Trim(s) ==
    LET keep == {k \in 1..Len(s) : s[k] \notin TrimChars}
    IN  IF keep = {} THEN <<>>
        ELSE SubSeq(s, CHOOSE k \in keep : \A m \in keep : k <= m,
                       CHOOSE k \in keep : \A m \in keep : k >= m)

\* the regular expression of a pass, tried at index i of s
Match(p, s, i) ==
    CASE p.re = "think" -> think_regex(s, i)
      [] p.re = "note" -> note_regex(s, i)
      [] p.re = "backtick" -> backtick_regex(s, i)
      [] p.re = "standalone_backtick" -> standalone_backtick_regex(s, i)
      [] p.re = "bold" -> bold_regex(s, i)
      [] p.re = "color_bold" -> color_bold_regex(color_codes[p.k][1], s, i)
      [] p.re = "table_border" -> table_border_regex(s, i)
      [] p.re = "table_header" -> table_header_regex(s, i)
      [] p.re = "table_row_start" -> table_row_start(s, i)
      [] p.re = "table_row_end" -> table_row_end(s, i)
      [] p.re = "table_cell_divider" -> table_cell_divider(s, i)

\* the format string of a pass, expanded for the match at i..e-1
Replacement(p, s, i, e) ==
    CASE p.re = "bold" -> BoldReplace(s, i, e)
      [] p.re = "color_bold" -> ColorReplace(color_codes[p.k][1], color_codes[p.k][2], s, i, e)
      [] p.re = "table_cell_divider" -> <<" ", " ">>
      [] OTHER -> <<>>

RECURSIVE ReplaceFrom(_, _, _)
\* std::regex_replace: the matches are searched left to right, each search
\* starting where the previous match ended; unmatched characters are copied
ReplaceFrom(p, s, i) ==
    IF i > Len(s) THEN <<>>
    ELSE LET e == Match(p, s, i)
         IN  IF e > i THEN Replacement(p, s, i, e) \o ReplaceFrom(p, s, e)
             ELSE <<s[i]>> \o ReplaceFrom(p, s, i + 1)

regex_replace(s, re) == ReplaceFrom([re |-> re, k |-> 0], s, 1)

RECURSIVE ColorPasses(_, _)
\* for (const auto& [color, code] : color_codes) response = regex_replace(...)
ColorPasses(s, k) ==
    IF k > Len(color_codes) THEN s
    ELSE ColorPasses(ReplaceFrom([re |-> "color_bold", k |-> k], s, 1), k + 1)

\* the processing of the "response" string in enhance_with_ai, pass by pass
Sanitize(response) ==
    LET r1 == regex_replace(response, "think")
        r2 == unescape_string(r1)
        r3 == regex_replace(r2, "note")
        r4 == regex_replace(r3, "backtick")
        r5 == regex_replace(r4, "standalone_backtick")
        r6 == regex_replace(r5, "bold")
        r7 == ColorPasses(r6, 1)
        r8 == regex_replace(r7, "table_border")
        r9 == regex_replace(r8, "table_header")
        r10 == regex_replace(r9, "table_row_start")
        r11 == regex_replace(r10, "table_row_end")
        r12 == regex_replace(r11, "table_cell_divider")
    IN  Trim(r12)

\* the five replacements under "Clean up table formatting", in their order
TableCleanup(s) ==
    LET Divider(r) == regex_replace(r, "table_cell_divider")
        RowEnd(r) == Divider(regex_replace(r, "table_row_end"))
        RowStart(r) == RowEnd(regex_replace(r, "table_row_start"))
        Header(r) == RowStart(regex_replace(r, "table_header"))
    IN  Header(regex_replace(s, "table_border"))

\* the rewrite steps of enhance_with_ai, in the order it applies them
PassNames == <<"think", "unescape_string", "note", "backtick", "standalone_backtick",
               "bold", "color_bold", "table_border", "table_header",
               "table_row_start", "table_row_end", "table_cell_divider", "trim">>

\* one rewrite step applied to the text s
Pass(name, s) ==
    CASE name = "unescape_string" -> unescape_string(s)
      [] name = "color_bold" -> ColorPasses(s, 1)
      [] name = "trim" -> Trim(s)
      [] OTHER -> regex_replace(s, name)

(***************************************************************************)
(* Command line, config file and the two calls to the service.             *)
(***************************************************************************)
HelpShort == <<"-", "h">>

HelpLong == <<"-", "-", "h", "e", "l", "p">>

UrlFlag == <<"-", "-", "u", "r", "l", "=">>

DefaultUrl == <<"http://localhost:11434">>

\* std::getline(config_file, url): the text up to the first newline (the
\* string is cleared first, so an empty file gives the empty text)
FirstLine(content) == SubSeq(content, 1, FirstIn(content, 1, {"\n"}) - 1)

\* the first part of get_url: the URL read from the config file
ReadConfigUrl(file, readable) ==
    IF file.exists /\ readable THEN FirstLine(file.content) ELSE DefaultUrl

RECURSIVE UrlLoop(_, _, _, _)
\* the argument loop of get_url from argument i on; st = [url, file, saved]
UrlLoop(argv, i, writable, st) ==
    IF i > Len(argv) THEN st
    ELSE IF At(argv[i], 1, UrlFlag)
         THEN LET u == SubSeq(argv[i], Len(UrlFlag) + 1, Len(argv[i]))
              IN  UrlLoop(argv, i + 1, writable,
                          IF writable
                          THEN [url |-> u, file |-> [exists |-> TRUE, content |-> u],
                                saved |-> [set |-> TRUE, url |-> u]]
                          ELSE [st EXCEPT !.url = u])
    ELSE UrlLoop(argv, i + 1, writable, st)

\* get_url(argc, argv) on the config file; readable / writable tell whether
\* the ifstream / ofstream opens
get_url(argv, file, saved, readable, writable) ==
    UrlLoop(argv, 1, writable,
            [url |-> ReadConfigUrl(file, readable), file |-> file, saved |-> saved])

\* basic_json::contains(key)
contains(j, key) == j.t = "obj" /\ \E k \in 1..Len(j.m) : j.m[k][1] = key

\* operator[](key) on an object that has the key
member(j, key) == j.m[CHOOSE k \in 1..Len(j.m) : j.m[k][1] = key][2]

ModelsKey == <<"m", "o", "d", "e", "l", "s">>

NameKey == <<"n", "a", "m", "e">>

ResponseKey == <<"r", "e", "s", "p", "o", "n", "s", "e">>

\* the model name src/eo.cpp and the README give for a listing without models
DefaultModel == <<"llama3:8b-instruct-q4_0">>

\* the model selection of enhance_with_ai:
\*   "none"   there is no non-empty "models" array
\*   "throw"  operator[] or get<std::string>() throws type_error, which no
\*            handler of the program catches
\*   "undef"  const operator[] with a key the object lacks
\*   "name"   the first entry has a string "name"
SelectModel(models) ==
    IF ~(contains(models, ModelsKey) /\ member(models, ModelsKey).t = "arr"
         /\ member(models, ModelsKey).e # <<>>)
    THEN [kind |-> "none", name |-> <<>>]
    ELSE LET first == member(models, ModelsKey).e[1]
         IN  IF first.t # "obj" THEN [kind |-> "throw", name |-> <<>>]
             ELSE IF ~contains(first, NameKey) THEN [kind |-> "undef", name |-> <<>>]
             ELSE IF member(first, NameKey).t # "str" THEN [kind |-> "throw", name |-> <<>>]
             ELSE [kind |-> "name", name |-> member(first, NameKey).s]

ServerIssue == <<"Error: AI server issue">>

InvalidResponse == <<"Error: Invalid AI response">>

NoResponseField == <<"Error: No 'response' in AI output">>

NoModels == <<"Error: No models available">>

\* enhance_with_ai without the test of the HTTP status
GenerationResult_NoStatusTest(res) ==
    IF ~res.conn THEN ServerIssue
    ELSE LET json_res == json_parse(res.body)
         IN  IF ~json_res.ok THEN InvalidResponse
             ELSE IF ~contains(json_res.val, ResponseKey) THEN NoResponseField
             ELSE IF member(json_res.val, ResponseKey).t # "str" THEN InvalidResponse
             ELSE Sanitize(member(json_res.val, ResponseKey).s)

\* what enhance_with_ai returns for the reply res of POST /api/generate
GenerationResult(res) ==
    IF ~res.conn \/ res.status # 200 THEN ServerIssue
    ELSE LET json_res == json_parse(res.body)
         IN  IF ~json_res.ok THEN InvalidResponse
             ELSE IF ~contains(json_res.val, ResponseKey) THEN NoResponseField
             ELSE IF member(json_res.val, ResponseKey).t # "str" THEN InvalidResponse
             ELSE Sanitize(member(json_res.val, ResponseKey).s)

\* the three instruction templates of main, each with the terminal width
\* embedded and the raw input appended
DataAnalystJson == <<"Act as a data analyst ... Transform the provided JSON data ... The terminal width is ">>

DataAnalystTable == <<"Act as a data analyst ... Transform the provided table data ... The terminal width is ">>

OutputEnhancer == <<"Act as a command-line output enhancer ... The terminal width is ">>

HereIsTheData == <<" characters. ... Here's the data:", "\n", "\n">>

HereIsTheOutput == <<" characters. ... Here's the output to enhance:", "\n", "\n">>

\* main using the JSON instructions for a TABLE input as well
ai_prompt_TableAsJson(fmt, input, terminal_width) ==
    CASE fmt = "JSON" -> DataAnalystJson \o <<ToString(terminal_width)>> \o HereIsTheData \o input
      [] fmt = "TABLE" -> DataAnalystJson \o <<ToString(terminal_width)>> \o HereIsTheData \o input
      [] OTHER -> OutputEnhancer \o <<ToString(terminal_width)>> \o HereIsTheOutput \o input

ai_prompt(fmt, input, terminal_width) ==
    CASE fmt = "JSON" -> DataAnalystJson \o <<ToString(terminal_width)>> \o HereIsTheData \o input
      [] fmt = "TABLE" -> DataAnalystTable \o <<ToString(terminal_width)>> \o HereIsTheData \o input
      [] OTHER -> OutputEnhancer \o <<ToString(terminal_width)>> \o HereIsTheOutput \o input

\* the payload of the generation request
Payload(model_name, prompt, terminal_width) ==
    [model |-> model_name,
     prompt |-> prompt \o <<"\n", "\n", "The terminal width is ", ToString(terminal_width),
                            " characters. Ensure the output is formatted to fit within this width for symmetry and readability.">>,
     stream |-> FALSE]

UsageText == <<"Usage: <command> | eo [options]", "\n", "...", "\n">>

NoInputProvided == <<"No input provided.">>

(***************************************************************************)
(* State.  The probe variables exercise detect_format on its own; the      *)
(* other variables (declared further down) are the state of the runs of    *)
(* main.                                                                   *)
(***************************************************************************)
VARIABLES
    probe,            \* the text a function is applied to on its own
    probeFormat,      \* what detect_format returned for it
    probeOp,          \* the function that was applied, "none" before
    probeWidth,       \* the terminal_width argument of the function
    probeWidths,      \* format_table's col_widths when it builds the output
    probeOut          \* the text the function returned

probeVars == <<probe, probeFormat, probeOp, probeWidth, probeWidths, probeOut>>

VARIABLES
    cfg,              \* the config file: [exists, content]
    cfgReadable,      \* whether opening the config file for reading succeeds
    cfgWritable,      \* whether opening the config file for writing succeeds
    lastSaved,        \* history: the URL most recently written to the file
    argv,             \* the arguments of the current run (argv[1..argc-1])
    terminal_width,   \* what get_terminal_width() returned
    pc,               \* position of the current run in main
    url,              \* main's url
    listed,           \* "no", "ok" or "failed": result of check_service
    models,           \* the JSON value check_service stored
    stdinRead,        \* whether read_input() has run
    input,            \* the text read from standard input
    format,           \* the detected Format
    formatted_output, \* main's formatted_output
    ai_response,      \* what enhance_with_ai returned
    out,              \* standard output of the current run
    err,              \* diagnostics written to standard error
    reqs,             \* the HTTP requests issued by the current run, in order,
                      \* each with the reply it got and whether stdin was read
    cfgTouched,       \* whether the current run opened the config file
    exit_code         \* -1 while running, then the exit status

runVars == <<argv, terminal_width, pc, url, listed, models, stdinRead, input, format,
             formatted_output, ai_response, out, err, reqs, cfgTouched, exit_code,
             cfgReadable, cfgWritable>>

vars == <<probeVars, cfg, lastSaved, runVars>>

\* characters the probed inputs are made of
DetectAlphabet == {"[", "]", "{", "}", ":", ",", "\"", "1", " ", "\n"}

\* words the probed grids are made of
GridWords == {<<"[">>, <<"]">>, <<"a", "b">>}

MaxCols == 2

MaxRows == 2

\* lines of 1..MaxCols words separated by one space
GridLines == {JoinWith(ws, <<" ">>) : ws \in UNION {[1..k -> GridWords] : k \in 1..MaxCols}}

\* 1..MaxRows such lines separated by newlines, with or without a final one
GridInputs ==
    LET bodies == {JoinWith(ls, <<"\n">>) : ls \in UNION {[1..k -> GridLines] : k \in 1..MaxRows}}
    IN  bodies \cup {b \o <<"\n">> : b \in bodies}

ProbeInputs == TextsUpTo(DetectAlphabet, MaxLen) \cup GridInputs

\* a probe before its function is applied
ProbeFresh ==
    /\ probeFormat = "none"
    /\ probeOp = "none"
    /\ probeWidths = <<>>
    /\ probeOut = <<>>

ProbeInit == probe \in ProbeInputs /\ probeWidth = 80 /\ ProbeFresh

ProbeIdle == probe = <<>> /\ probeWidth = 80 /\ ProbeFresh

\* Format format = detect_format(input);
Detect ==
    /\ probeOp = "none"
    /\ probeOp' = "detect_format"
    /\ probeFormat' = detect_format(probe)
    /\ UNCHANGED <<probe, probeWidth, probeWidths, probeOut>>

(***************************************************************************)
(* The environment of a run.                                               *)
(***************************************************************************)
MaxArgs == 2

Urls == {<<"a">>, <<"b">>, <<"a", "\n", "b">>}

ArgChoices == {HelpShort, HelpLong, <<"x">>} \cup {UrlFlag \o u : u \in Urls}

ArgLists == UNION {[1..k -> ArgChoices] : k \in 0..MaxArgs}

\* ws_col of the terminal, or 80 when the ioctl fails
TermWidths == {4, 80, 120}

\* bodies of the listing reply that are JSON text, of every shape
JsonListingBodies == {
    <<"{", "\"", "m", "o", "d", "e", "l", "s", "\"", ":", "[", "{", "\"", "n", "a", "m", "e", "\"", ":", "\"", "m", "\"", "}", "]", "}">>,
    <<"{", "\"", "m", "o", "d", "e", "l", "s", "\"", ":", "[", "]", "}">>,
    <<"{", "}">>,
    <<"[", "]">>,
    <<"{", "\"", "m", "o", "d", "e", "l", "s", "\"", ":", "[", "{", "\"", "n", "a", "m", "e", "\"", ":", "1", "}", "]", "}">>,
    <<"{", "\"", "m", "o", "d", "e", "l", "s", "\"", ":", "[", "{", "}", "]", "}">>,
    <<"{", "\"", "m", "o", "d", "e", "l", "s", "\"", ":", "[", "1", "]", "}">>,
    <<"{", "\"", "m", "o", "d", "e", "l", "s", "\"", ":", "1", "}">> }

\* a body of the listing reply that is not JSON text
NonJsonListingBodies == {<<"{">>}

ListingBodies == JsonListingBodies \cup NonJsonListingBodies

\* the replies to GET /api/tags: no connection, a non-200 status, a body
ListingReplies ==
    {[conn |-> FALSE, status |-> 0, body |-> <<>>],
     [conn |-> TRUE, status |-> 404, body |-> <<"{", "\"", "m", "o", "d", "e", "l", "s", "\"", ":", "[", "{", "\"", "n", "a", "m", "e", "\"", ":", "\"", "m", "\"", "}", "]", "}">>]}
    \cup [conn : {TRUE}, status : {200}, body : ListingBodies]

\* bodies of the generation reply: with a string "response", with a
\* "response" that is no string, JSON without "response", and no JSON text
ResponseBodies == {
    <<"{", "\"", "r", "e", "s", "p", "o", "n", "s", "e", "\"", ":", "\"", "o", "k", "\"", "}">>,
    <<"{", "\"", "r", "e", "s", "p", "o", "n", "s", "e", "\"", ":", "\"", " ", "*", "*", "h", "i", "*", "*", "\\", "n", "\"", "}">> }

NonStringResponseBodies == {<<"{", "\"", "r", "e", "s", "p", "o", "n", "s", "e", "\"", ":", "1", "}">>}

NoResponseBodies == {<<"{", "}">>, <<"[", "]">>}

NonJsonGenerationBodies == {<<"{", "\"", "r", "e", "s", "p", "o", "n", "s", "e", "\"", ":">>}

GenerationBodies ==
    ResponseBodies \cup NonStringResponseBodies \cup NoResponseBodies \cup NonJsonGenerationBodies

\* the replies to POST /api/generate
GenerationReplies ==
    {[conn |-> FALSE, status |-> 0, body |-> <<>>],
     [conn |-> TRUE, status |-> 500, body |-> <<"{", "\"", "r", "e", "s", "p", "o", "n", "s", "e", "\"", ":", "\"", "o", "k", "\"", "}">>]}
    \cup [conn : {TRUE}, status : {200}, body : GenerationBodies]

StdinTexts == {
    <<>>,
    <<"{", "\"", "b", "\"", ":", "1", ",", "\"", "a", "\"", ":", "[", "2", "]", "}">>,
    <<"a", " ", "b", "\n", "1", " ", "2", "2", "\n">>,
    <<"h", "i", " ", "t", "h", "e", "r", "e", "\n">>,
    <<"7">> }

\* exit statuses of a run ended by std::terminate / by a memory fault
Aborted == 134

Faulted == 139

\* the model name read through the end iterator when the build goes on
GarbageName == <<"?">>

NoJson == [t |-> "lit", s |-> <<"n", "u", "l", "l">>]

\* a run starts: the state at the entry of main
StartRun ==
    /\ argv' \in ArgLists
    /\ terminal_width' \in TermWidths
    /\ cfgReadable' \in BOOLEAN
    /\ cfgWritable' \in BOOLEAN
    /\ pc' = "main"
    /\ url' = DefaultUrl
    /\ listed' = "no"
    /\ models' = NoJson
    /\ stdinRead' = FALSE
    /\ input' = <<>>
    /\ format' = "none"
    /\ formatted_output' = <<>>
    /\ ai_response' = <<>>
    /\ out' = <<>>
    /\ err' = <<>>
    /\ reqs' = <<>>
    /\ cfgTouched' = FALSE
    /\ exit_code' = -1

Init ==
    /\ ProbeIdle
    /\ cfg \in {[exists |-> FALSE, content |-> <<>>], [exists |-> TRUE, content |-> <<>>]}
    /\ lastSaved = [set |-> FALSE, url |-> <<>>]
    /\ argv \in ArgLists
    /\ terminal_width \in TermWidths
    /\ cfgReadable \in BOOLEAN
    /\ cfgWritable \in BOOLEAN
    /\ pc = "main"
    /\ url = DefaultUrl
    /\ listed = "no"
    /\ models = NoJson
    /\ stdinRead = FALSE
    /\ input = <<>>
    /\ format = "none"
    /\ formatted_output = <<>>
    /\ ai_response = <<>>
    /\ out = <<>>
    /\ err = <<>>
    /\ reqs = <<>>
    /\ cfgTouched = FALSE
    /\ exit_code = -1

\* main testing only the first argument for --help / -h
HelpCheck_FirstArgOnly ==
    /\ pc = "main"
    /\ IF Len(argv) >= 1 /\ (argv[1] = HelpLong \/ argv[1] = HelpShort)
       THEN /\ out' = out \o UsageText
            /\ exit_code' = 0
            /\ pc' = "done"
       ELSE /\ pc' = "get_url"
            /\ UNCHANGED <<out, exit_code>>
    /\ UNCHANGED <<probeVars, cfg, lastSaved, argv, terminal_width, url, listed, models,
                   stdinRead, input, format, formatted_output, ai_response, err, reqs,
                   cfgTouched, cfgReadable, cfgWritable>>

\* main, the --help / -h loop
HelpCheck ==
    /\ pc = "main"
    /\ IF \E i \in 1..Len(argv) : argv[i] = HelpLong \/ argv[i] = HelpShort
       THEN /\ out' = out \o UsageText
            /\ exit_code' = 0
            /\ pc' = "done"
       ELSE /\ pc' = "get_url"
            /\ UNCHANGED <<out, exit_code>>
    /\ UNCHANGED <<probeVars, cfg, lastSaved, argv, terminal_width, url, listed, models,
                   stdinRead, input, format, formatted_output, ai_response, err, reqs,
                   cfgTouched, cfgReadable, cfgWritable>>

\* url = get_url(argc, argv);
GetUrl ==
    /\ pc = "get_url"
    /\ LET r == get_url(argv, cfg, lastSaved, cfgReadable, cfgWritable)
       IN  /\ url' = r.url
           /\ cfg' = r.file
           /\ lastSaved' = r.saved
    /\ cfgTouched' = TRUE
    /\ pc' = "check_service"
    /\ UNCHANGED <<probeVars, argv, terminal_width, listed, models, stdinRead, input, format,
                   formatted_output, ai_response, out, err, reqs, exit_code,
                   cfgReadable, cfgWritable>>

\* check_service returning true from its catch block
CheckService_CatchReturnsTrue ==
    /\ pc = "check_service"
    /\ \E res \in ListingReplies :
          /\ reqs' = Append(reqs, [method |-> "GET", path |-> "/api/tags", url |-> url,
                                   afterStdin |-> stdinRead, payload |-> <<>>,
                                   reply |-> res])
          /\ IF res.conn /\ res.status = 200
             THEN LET j == json_parse(res.body)
                  IN  /\ models' = IF j.ok THEN j.val ELSE models
                      /\ err' = IF j.ok THEN err ELSE Append(err, "Error parsing models data")
                      /\ listed' = "ok"
                      /\ pc' = "read_input"
                      /\ UNCHANGED exit_code
             ELSE /\ err' = Append(err, "Ollama service not started or invalid url")
                  /\ listed' = "failed"
                  /\ exit_code' = 1
                  /\ pc' = "done"
                  /\ UNCHANGED models
    /\ UNCHANGED <<probeVars, cfg, lastSaved, argv, terminal_width, url, stdinRead, input,
                   format, formatted_output, ai_response, out, cfgTouched,
                   cfgReadable, cfgWritable>>

\* if (!check_service(url, models)) return 1;
CheckService ==
    /\ pc = "check_service"
    /\ \E res \in ListingReplies :
          /\ reqs' = Append(reqs, [method |-> "GET", path |-> "/api/tags", url |-> url,
                                   afterStdin |-> stdinRead, payload |-> <<>>,
                                   reply |-> res])
          /\ IF res.conn /\ res.status = 200
             THEN LET j == json_parse(res.body)
                  IN  IF j.ok
                      THEN /\ models' = j.val
                           /\ listed' = "ok"
                           /\ pc' = "read_input"
                           /\ UNCHANGED <<err, exit_code>>
                      ELSE /\ err' = Append(err, "Error parsing models data")
                           /\ listed' = "failed"
                           /\ exit_code' = 1
                           /\ pc' = "done"
                           /\ UNCHANGED models
             ELSE /\ err' = Append(err, "Ollama service not started or invalid url")
                  /\ listed' = "failed"
                  /\ exit_code' = 1
                  /\ pc' = "done"
                  /\ UNCHANGED models
    /\ UNCHANGED <<probeVars, cfg, lastSaved, argv, terminal_width, url, stdinRead, input,
                   format, formatted_output, ai_response, out, cfgTouched,
                   cfgReadable, cfgWritable>>

\* main without the return after the empty-input notice
ReadInput_NoReturn ==
    /\ pc = "read_input"
    /\ \E text \in StdinTexts :
          /\ input' = text
          /\ stdinRead' = TRUE
          /\ out' = IF text = <<>> THEN out \o NoInputProvided \o <<"\n">> ELSE out
          /\ pc' = "format"
          /\ UNCHANGED exit_code
    /\ UNCHANGED <<probeVars, cfg, lastSaved, argv, terminal_width, url, listed, models,
                   format, formatted_output, ai_response, err, reqs, cfgTouched,
                   cfgReadable, cfgWritable>>

\* main returning 1 after the empty-input notice
ReadInput_EmptyIsError ==
    /\ pc = "read_input"
    /\ \E text \in StdinTexts :
          /\ input' = text
          /\ stdinRead' = TRUE
          /\ IF text = <<>>
             THEN /\ out' = out \o NoInputProvided \o <<"\n">>
                  /\ exit_code' = 1
                  /\ pc' = "done"
             ELSE /\ pc' = "format"
                  /\ UNCHANGED <<out, exit_code>>
    /\ UNCHANGED <<probeVars, cfg, lastSaved, argv, terminal_width, url, listed, models,
                   format, formatted_output, ai_response, err, reqs, cfgTouched,
                   cfgReadable, cfgWritable>>

\* std::string input = read_input(); and the empty-input exit
ReadInput ==
    /\ pc = "read_input"
    /\ \E text \in StdinTexts :
          /\ input' = text
          /\ stdinRead' = TRUE
          /\ IF text = <<>>
             THEN /\ out' = out \o NoInputProvided \o <<"\n">>
                  /\ exit_code' = 0
                  /\ pc' = "done"
             ELSE /\ pc' = "format"
                  /\ UNCHANGED <<out, exit_code>>
    /\ UNCHANGED <<probeVars, cfg, lastSaved, argv, terminal_width, url, listed, models,
                   format, formatted_output, ai_response, err, reqs, cfgTouched,
                   cfgReadable, cfgWritable>>

\* Format format = detect_format(input); and the local rendering.  A row
\* longer than the first makes format_table write past col_widths: the run
\* then ends in a fault or goes on with the rendering
FormatInput ==
    /\ pc = "format"
    /\ LET f == detect_format(input)
       IN  /\ format' = f
           /\ IF f = "TABLE" /\ TableOutOfBounds(TableRows(input))
              THEN \/ /\ exit_code' = Faulted
                      /\ pc' = "done"
                      /\ UNCHANGED formatted_output
                   \/ /\ formatted_output' = format_table(input, terminal_width)
                      /\ pc' = "enhance"
                      /\ UNCHANGED exit_code
              ELSE /\ formatted_output' =
                         CASE f = "JSON" -> format_json(input, terminal_width)
                           [] f = "TABLE" -> format_table(input, terminal_width)
                           [] OTHER -> <<>>
                   /\ pc' = "enhance"
                   /\ UNCHANGED exit_code
    /\ UNCHANGED <<probeVars, cfg, lastSaved, argv, terminal_width, url, listed, models,
                   stdinRead, input, ai_response, out, err, reqs, cfgTouched,
                   cfgReadable, cfgWritable>>

\* the generation request of enhance_with_ai and what it returns for res
Generate(model_name, res) ==
    /\ reqs' = Append(reqs, [method |-> "POST", path |-> "/api/generate", url |-> url,
                             afterStdin |-> stdinRead,
                             payload |-> Payload(model_name,
                                                 ai_prompt(format, input, terminal_width),
                                                 terminal_width),
                             reply |-> res])
    /\ ai_response' = GenerationResult(res)
    /\ err' = IF ai_response' \in {ServerIssue, InvalidResponse, NoResponseField}
              THEN Append(err, "generation failed") ELSE err
    /\ pc' = "print"
    /\ UNCHANGED exit_code

\* std::string ai_response = enhance_with_ai(ai_prompt, url, models, terminal_width);
EnhanceWithAI ==
    /\ pc = "enhance"
    /\ LET sel == SelectModel(models)
       IN  CASE sel.kind = "none" ->
                  /\ ai_response' = NoModels
                  /\ err' = Append(err, "No models available in the Ollama service")
                  /\ pc' = "print"
                  /\ UNCHANGED <<reqs, exit_code>>
             [] sel.kind = "throw" ->
                  /\ exit_code' = Aborted
                  /\ pc' = "done"
                  /\ UNCHANGED <<ai_response, err, reqs>>
             [] sel.kind = "undef" ->
                  \/ /\ exit_code' \in {Aborted, Faulted}
                     /\ pc' = "done"
                     /\ UNCHANGED <<ai_response, err, reqs>>
                  \/ \E res \in GenerationReplies : Generate(GarbageName, res)
             [] sel.kind = "name" ->
                  \E res \in GenerationReplies : Generate(sel.name, res)
    /\ UNCHANGED <<probeVars, cfg, lastSaved, argv, terminal_width, url, listed, models,
                   stdinRead, input, format, formatted_output, out, cfgTouched,
                   cfgReadable, cfgWritable>>

\* the output statement of main and return 0
PrintResult ==
    /\ pc = "print"
    /\ out' = IF format = "JSON" \/ format = "TABLE"
              THEN out \o formatted_output \o <<"\n", "\n">> \o ai_response \o <<"\n">>
              ELSE out \o ai_response \o <<"\n">>
    /\ exit_code' = 0
    /\ pc' = "done"
    /\ UNCHANGED <<probeVars, cfg, lastSaved, argv, terminal_width, url, listed, models,
                   stdinRead, input, format, formatted_output, ai_response, err, reqs,
                   cfgTouched, cfgReadable, cfgWritable>>

\* main has returned (or the process was killed): the memory of the run is gone
ProcessExit ==
    /\ pc = "done"
    /\ pc' = "off"
    /\ argv' = <<>>
    /\ terminal_width' = 80
    /\ cfgReadable' = FALSE
    /\ cfgWritable' = FALSE
    /\ url' = DefaultUrl
    /\ listed' = "no"
    /\ models' = NoJson
    /\ stdinRead' = FALSE
    /\ input' = <<>>
    /\ format' = "none"
    /\ formatted_output' = <<>>
    /\ ai_response' = <<>>
    /\ out' = <<>>
    /\ err' = <<>>
    /\ reqs' = <<>>
    /\ cfgTouched' = FALSE
    /\ exit_code' = -1
    /\ UNCHANGED <<probeVars, cfg, lastSaved>>

\* the program is started again on the same machine
NextRun ==
    /\ pc = "off"
    /\ StartRun
    /\ UNCHANGED <<probeVars, cfg, lastSaved>>

Next ==
    \/ HelpCheck
    \/ GetUrl
    \/ CheckService
    \/ ReadInput
    \/ FormatInput
    \/ EnhanceWithAI
    \/ PrintResult
    \/ ProcessExit
    \/ NextRun

Spec == Init /\ [][Next]_vars

(***************************************************************************)
(* detect_format on its own, over all short texts and small grids.         *)
(***************************************************************************)
RunIdle ==
    /\ cfg = [exists |-> FALSE, content |-> <<>>]
    /\ lastSaved = [set |-> FALSE, url |-> <<>>]
    /\ argv = <<>>
    /\ terminal_width = 80
    /\ cfgReadable = FALSE
    /\ cfgWritable = FALSE
    /\ pc = "idle"
    /\ url = DefaultUrl
    /\ listed = "no"
    /\ models = NoJson
    /\ stdinRead = FALSE
    /\ input = <<>>
    /\ format = "none"
    /\ formatted_output = <<>>
    /\ ai_response = <<>>
    /\ out = <<>>
    /\ err = <<>>
    /\ reqs = <<>>
    /\ cfgTouched = FALSE
    /\ exit_code = -1

DetectInit == ProbeInit /\ RunIdle

DetectNext == Detect /\ UNCHANGED <<cfg, lastSaved, runVars>>

SpecDetect == DetectInit /\ [][DetectNext]_vars

(***************************************************************************)
(* The sanitizer of enhance_with_ai on its own, over replies that use the  *)
(* backslash escapes and replies that carry the colour markup the prompt   *)
(* asks the model for.                                                     *)
(***************************************************************************)
EscapeAlphabet == {"\\", "n", "t", "0", "3", "a"}

\* an escape whose halves are separated by a code fence
FencedEscapeReplies == {<<"\\">> \o Fence \o Fence \o <<c>> : c \in {"n", "t"}}

\* texts without '*' that the markup wraps
MarkupTexts == {<<"a">>, <<"a", " ", "b">>}

\* color[**text**]
ColourMarkup(color, text) == color \o <<"[", "*", "*">> \o text \o <<"*", "*", "]">>

ColourReplies ==
    {x \o ColourMarkup(color_codes[k][1], text) \o y :
        k \in 1..Len(color_codes), text \in MarkupTexts,
        x \in {<<>>, <<"*", "*", "b", "*", "*", " ", "a", "n", "d", " ">>},
        y \in {<<>>, <<"!">>}}

ReplyInputs == TextsUpTo(EscapeAlphabet, MaxLen) \cup FencedEscapeReplies \cup ColourReplies

SanitizeInit == probe \in ReplyInputs /\ probeWidth = 80 /\ ProbeFresh /\ RunIdle

\* response = json_res["response"].get<std::string>(); ... return response;
ApplySanitize ==
    /\ probeOp = "none"
    /\ probeOp' = "Sanitize"
    /\ probeOut' = Sanitize(probe)
    /\ UNCHANGED <<probe, probeFormat, probeWidth, probeWidths>>

SanitizeNext == ApplySanitize /\ UNCHANGED <<cfg, lastSaved, runVars>>

SpecSanitize == SanitizeInit /\ [][SanitizeNext]_vars

(***************************************************************************)
(* format_json on its own, over JSON texts built from a few leaves: arrays *)
(* and objects of up to MaxElems leaves, and those nested one level down.  *)
(* The numbers are integer lexemes and the strings use no \u escape.       *)
(***************************************************************************)
MaxElems == 2

JsonLeaves == {<<"1">>, <<"-", "0">>, <<"\"", "a", "\"">>, <<"\"", "\\", "\"", "\"">>,
               <<"t", "r", "u", "e">>}

JsonKeys == {<<"\"", "a", "\"">>, <<"\"", "b", "\"">>}

\* [v, ...] with up to MaxElems elements from V
JsonArrays(V) ==
    {<<"[">> \o JoinWith(es, <<",">>) \o <<"]">> :
        es \in UNION {[1..k -> V] : k \in 0..MaxElems}}

\* {"k": v, ...} with up to MaxElems members, the keys distinct and in any order
JsonObjects(V) ==
    {<<"{">> \o JoinWith([i \in 1..Len(ms) |-> ms[i][1] \o <<":">> \o ms[i][2]], <<",">>)
             \o <<"}">> :
        ms \in {m \in UNION {[1..k -> JsonKeys \X V] : k \in 0..MaxElems} :
                   \A i, j \in 1..Len(m) : m[i][1] = m[j][1] => i = j}}

JsonFlat == JsonArrays(JsonLeaves) \cup JsonObjects(JsonLeaves)

JsonNested ==
    {<<"[">> \o v \o <<"]">> : v \in JsonFlat}
    \cup {<<"{", "\"", "b", "\"", ":", " ">> \o v \o <<"\n", "}">> : v \in JsonFlat}

\* texts json::parse rejects
JsonBroken == {<<"{">>, <<"[", "1", ",", "]">>, <<"{", "\"", "a", "\"", "}">>}

JsonInputs == JsonLeaves \cup JsonFlat \cup JsonNested \cup JsonBroken

JsonInit ==
    /\ probe \in JsonInputs
    /\ probeWidth \in {80, 120}
    /\ ProbeFresh
    /\ RunIdle

\* formatted_output = format_json(input, terminal_width);
ApplyFormatJson ==
    /\ probeOp = "none"
    /\ probeOp' = "format_json"
    /\ probeOut' = format_json(probe, probeWidth)
    /\ UNCHANGED <<probe, probeFormat, probeWidth, probeWidths>>

JsonNext == ApplyFormatJson /\ UNCHANGED <<cfg, lastSaved, runVars>>

SpecJson == JsonInit /\ [][JsonNext]_vars

(***************************************************************************)
(* format_table on its own, over the grids main passes to it: those that   *)
(* detect_format classifies as TABLE.  The fields are 1, 6 and 12          *)
(* characters long and the terminal is 8, 20 or 80 characters wide, so     *)
(* that a table fits, or is shrunk with room left, or down to the floor.   *)
(***************************************************************************)
TableWords == {<<"a">>, [k \in 1..6 |-> "c"], [k \in 1..12 |-> "d"]}

TableLines == {JoinWith(ws, <<" ">>) : ws \in UNION {[1..k -> TableWords] : k \in 1..MaxCols}}

TableGrids ==
    {JoinWith(ls, <<"\n">>) \o <<"\n">> : ls \in UNION {[1..k -> TableLines] : k \in 1..MaxRows}}

TableInputs == {g \in TableGrids : detect_format(g) = "TABLE"}

TableInit ==
    /\ probe \in TableInputs
    /\ probeWidth \in {8, 20, 80}
    /\ ProbeFresh
    /\ RunIdle

\* formatted_output = format_table(input, terminal_width);
ApplyFormatTable ==
    /\ probeOp = "none"
    /\ probeOp' = "format_table"
    /\ probeWidths' = ColWidths(TableRows(probe), probeWidth)
    /\ probeOut' = format_table(probe, probeWidth)
    /\ UNCHANGED <<probe, probeFormat, probeWidth>>

TableNext == ApplyFormatTable /\ UNCHANGED <<cfg, lastSaved, runVars>>

SpecTable == TableInit /\ [][TableNext]_vars

(***************************************************************************)
(* The inputs on which detect_format and format_table of src/eo.cpp are    *)
(* applied in turn, as its main does.                                      *)
(***************************************************************************)
MaxFields == 3

EoWords == {Metric, Value, <<"a">>}

\* first lines of one to MaxFields words
EoFirstLines == {JoinWith(ws, <<" ">>) : ws \in UNION {[1..k -> EoWords] : k \in 1..MaxFields}}

\* later lines of no to MaxFields fields
EoBodyLines == {JoinWith([j \in 1..k |-> <<"a">>], <<" ">>) : k \in 0..MaxFields}

EoBodies ==
    {JoinWith(ls, <<"\n">>) \o <<"\n">> : ls \in UNION {[1..k -> EoBodyLines] : k \in 1..(MaxRows - 1)}}
    \cup {<<>>}

EoJsonTexts == {<<"{", "}">>, <<"[", "1", "]">>, <<"{">> \o Metric \o <<" ">> \o Value, <<"[", "a", " ", "a">>}

EoInputs == {f \o <<"\n">> \o b : f \in EoFirstLines, b \in EoBodies}
            \cup {j \o <<"\n">> \o b : j \in EoJsonTexts, b \in {<<>>, <<"a", " ", "a", " ", "a", "\n">>}}

\* what the memory behind col_widths held before the width loop wrote to it
StaleWidths == {0, 8}

EoInit ==
    /\ probe \in EoInputs
    /\ probeWidth = 80
    /\ ProbeFresh
    /\ RunIdle

\* Format format = detect_format(input);
DetectEo ==
    /\ probeOp = "none"
    /\ probeOp' = "detect_format"
    /\ probeFormat' = detect_format_eo(probe)
    /\ UNCHANGED <<probe, probeWidth, probeWidths, probeOut>>

\* else if (format == Format::TABLE) formatted_output = format_table(input);
\* a row longer than the first makes the width loop write behind col_widths:
\* the run is then ended by a memory fault, or goes on with the values found
FormatTableEo ==
    /\ probeOp = "detect_format"
    /\ probeFormat = "TABLE"
    /\ UNCHANGED <<probe, probeFormat, probeWidth>>
    /\ LET rows == TableRows(probe)
       IN  IF rows = <<>>
           THEN probeOp' = "format_table" /\ probeWidths' = <<>> /\ probeOut' = <<>>
           ELSE IF TableOutOfBounds(rows)
           THEN \/ probeOp' = "fault" /\ probeWidths' = <<>> /\ probeOut' = <<>>
                \/ \E stale \in StaleWidths :
                      /\ probeOp' = "format_table"
                      /\ probeWidths' = ColWidthsEo(rows, stale)
                      /\ probeOut' = format_table_eo(rows, ColWidthsEo(rows, stale))
           ELSE /\ probeOp' = "format_table"
                /\ probeWidths' = ColWidthsEo(rows, 0)
                /\ probeOut' = format_table_eo(rows, ColWidthsEo(rows, 0))

EoNext == (DetectEo \/ FormatTableEo) /\ UNCHANGED <<cfg, lastSaved, runVars>>

SpecEo == EoInit /\ [][EoNext]_vars

(***************************************************************************)
(* The rewrite steps of enhance_with_ai applied one at a time, and all in  *)
(* turn, to replies built from the pieces each step looks for.             *)
(***************************************************************************)
MaxPieces == 4

\* the texts made of at most n pieces of P
PieceTexts(P, n) == {Concat(ps) : ps \in UNION {[1..k -> P] : k \in 0..n}}

ThinkPieces == {ThinkOpen, ThinkClose, <<"<">>, <<"a">>, <<"\n">>}

FencePieces == {Fence, <<"<BT>", "<BT>">>, <<"<BT>">>, <<"a">>, <<"\n">>}

NotePieces == {NoteWord, <<"\n">>, <<"a">>, <<" ">>}

BoldPieces == {Stars, <<"*">>, <<"a">>}

TablePieces == {<<"|">>, <<" ">>, <<"a">>, <<"-">>, <<"_">>, <<" ", "|", " ">>}

TrimPieces == {<<" ">>, <<"\n">>, <<"\t">>, <<"\r">>, <<"a">>}

\* a markdown table row of two cells, without and with the outer pipes
MarkdownRows == {<<"a", " ", "|", " ", "a">>,
                 <<"|", " ", "a", " ", "|", " ", "a", " ", "|">>}

RewriteInputs ==
    PieceTexts(ThinkPieces, MaxPieces) \cup PieceTexts(FencePieces, MaxPieces)
    \cup PieceTexts(NotePieces, MaxPieces) \cup PieceTexts(BoldPieces, MaxPieces)
    \cup PieceTexts(TablePieces, MaxPieces) \cup PieceTexts(TrimPieces, MaxPieces)
    \cup PieceTexts({<<c>> : c \in EscapeAlphabet}, MaxPieces)
    \cup ColourReplies \cup MarkdownRows

RewriteInit ==
    /\ probe \in RewriteInputs
    /\ probeWidth = 80
    /\ ProbeFresh
    /\ RunIdle

\* response = std::regex_replace(response, <regex>, <format>), and the like
ApplyPass ==
    /\ probeOp = "none"
    /\ \E k \in 1..Len(PassNames) :
          /\ probeOp' = PassNames[k]
          /\ probeOut' = Pass(PassNames[k], probe)
    /\ UNCHANGED <<probe, probeFormat, probeWidth, probeWidths>>

\* the five table replacements in a row
ApplyTableCleanup ==
    /\ probeOp = "none"
    /\ probeOp' = "TableCleanup"
    /\ probeOut' = TableCleanup(probe)
    /\ UNCHANGED <<probe, probeFormat, probeWidth, probeWidths>>

RewriteNext ==
    (ApplyPass \/ ApplyTableCleanup \/ ApplySanitize) /\ UNCHANGED <<cfg, lastSaved, runVars>>

SpecRewrite == RewriteInit /\ [][RewriteNext]_vars

(***************************************************************************)
(* The classification and formatting steps of main applied in turn to      *)
(* JSON texts, well-formed and broken.                                     *)
(***************************************************************************)
FormatInputs ==
    JsonInputs \cup {<<"a", " ", "b", "\n", "1", " ", "2", "2", "\n">>,
                     <<"h", "i", " ", "t", "h", "e", "r", "e", "\n">>}

FormatInit ==
    /\ probe \in FormatInputs
    /\ probeWidth \in {80, 120}
    /\ ProbeFresh
    /\ RunIdle

\* if (format == Format::JSON) formatted_output = format_json(..);
\* else if (format == Format::TABLE) formatted_output = format_table(..);
ApplyFormat ==
    /\ probeOp = "detect_format"
    /\ UNCHANGED <<probe, probeFormat, probeWidth, probeWidths>>
    /\ IF probeFormat = "TABLE" /\ TableOutOfBounds(TableRows(probe))
       THEN \/ probeOp' = "fault" /\ probeOut' = <<>>
            \/ probeOp' = "format" /\ probeOut' = format_table(probe, probeWidth)
       ELSE /\ probeOp' = "format"
            /\ probeOut' = CASE probeFormat = "JSON" -> format_json(probe, probeWidth)
                             [] probeFormat = "TABLE" -> format_table(probe, probeWidth)
                             [] OTHER -> <<>>

FormatNext == (Detect \/ ApplyFormat) /\ UNCHANGED <<cfg, lastSaved, runVars>>

SpecFormat == FormatInit /\ [][FormatNext]_vars

(***************************************************************************)
(* The JSON grammar of RFC 8259, stated by decomposition of the text (not  *)
(* by scanning it), and the shape of a whitespace-delimited grid.  These   *)
(* are what the claims about detect_format are stated against.             *)
(***************************************************************************)
WsChars == {" ", "\t", "\n", "\r"}

StripWs(s) ==
    LET nonws == {k \in 1..Len(s) : s[k] \notin WsChars}
    IN  IF nonws = {} THEN <<>>
        ELSE SubSeq(s, CHOOSE k \in nonws : \A m \in nonws : k <= m,
                       CHOOSE k \in nonws : \A m \in nonws : k >= m)

G_Digits(u) == Len(u) >= 1 /\ \A k \in 1..Len(u) : u[k] \in {"0","1","2","3","4","5","6","7","8","9"}

G_Int(u) == u = <<"0">> \/ (G_Digits(u) /\ u[1] # "0")

G_Frac(u) == u = <<>> \/ (Len(u) >= 2 /\ u[1] = "." /\ G_Digits(Tail(u)))

G_Exp(u) ==
    \/ u = <<>>
    \/ /\ Len(u) >= 2
       /\ u[1] \in {"e", "E"}
       /\ \/ G_Digits(Tail(u))
          \/ Len(u) >= 3 /\ u[2] \in {"+", "-"} /\ G_Digits(SubSeq(u, 3, Len(u)))

G_Unsigned(u) ==
    \E i \in 1..Len(u) : \E j \in i..Len(u) :
        /\ G_Int(SubSeq(u, 1, i))
        /\ G_Frac(SubSeq(u, i+1, j))
        /\ G_Exp(SubSeq(u, j+1, Len(u)))

G_Number(t) == G_Unsigned(t) \/ (Len(t) >= 2 /\ t[1] = "-" /\ G_Unsigned(Tail(t)))

RECURSIVE G_Chars(_)
G_Chars(u) ==
    \/ u = <<>>
    \/ u[1] \notin {"\"", "\\", "\n", "\t", "\r"} /\ G_Chars(Tail(u))
    \/ /\ Len(u) >= 2
       /\ u[1] = "\\"
       /\ u[2] \in {"\"", "\\", "/", "b", "f", "n", "r", "t"}
       /\ G_Chars(SubSeq(u, 3, Len(u)))

G_String(t) == Len(t) >= 2 /\ t[1] = "\"" /\ t[Len(t)] = "\"" /\ G_Chars(SubSeq(t, 2, Len(t) - 1))

G_Literal(t) == t \in {<<"t","r","u","e">>, <<"f","a","l","s","e">>, <<"n","u","l","l">>}

RECURSIVE G_Value(_), G_Elements(_), G_Members(_)

\* t is a JSON value without surrounding whitespace
G_Value(t) ==
    \/ G_Number(t)
    \/ G_String(t)
    \/ G_Literal(t)
    \/ /\ Len(t) >= 2 /\ t[1] = "[" /\ t[Len(t)] = "]"
       /\ LET u == SubSeq(t, 2, Len(t) - 1)
          IN  StripWs(u) = <<>> \/ G_Elements(u)
    \/ /\ Len(t) >= 2 /\ t[1] = "{" /\ t[Len(t)] = "}"
       /\ LET u == SubSeq(t, 2, Len(t) - 1)
          IN  StripWs(u) = <<>> \/ G_Members(u)

G_Elements(u) ==
    \/ G_Value(StripWs(u))
    \/ \E k \in 1..Len(u) :
          /\ u[k] = ","
          /\ G_Value(StripWs(SubSeq(u, 1, k-1)))
          /\ G_Elements(SubSeq(u, k+1, Len(u)))

G_Member(u) ==
    \E k \in 1..Len(u) :
          /\ u[k] = ":"
          /\ G_String(StripWs(SubSeq(u, 1, k-1)))
          /\ G_Value(StripWs(SubSeq(u, k+1, Len(u))))

G_Members(u) ==
    \/ G_Member(u)
    \/ \E k \in 1..Len(u) :
          /\ u[k] = ","
          /\ G_Member(SubSeq(u, 1, k-1))
          /\ G_Members(SubSeq(u, k+1, Len(u)))

WellFormedJson(s) == G_Value(StripWs(s))

\* well-formed JSON text whose top-level value is an object or an array
StructuredJson(s) == WellFormedJson(s) /\ StripWs(s)[1] \in {"[", "{"}

\* the lines of s as index intervals: a line starts at 1 and after every
\* newline, and the empty piece after a final newline is no line
LineStarts(s) == {a \in 1..Len(s) : a = 1 \/ s[a-1] = "\n"}

LineEnd(s, a) ==
    LET nl == {k \in a..Len(s) : s[k] = "\n"}
    IN  IF nl = {} THEN Len(s) ELSE (CHOOSE k \in nl : \A m \in nl : k <= m) - 1

\* number of whitespace-delimited fields of the line starting at a
NumFields(s, a) ==
    Cardinality({k \in a..LineEnd(s, a) :
                    s[k] \notin WsChars /\ (k = a \/ s[k-1] \in WsChars)})

NumLines(s) == Cardinality(LineStarts(s))

\* every line has exactly n fields
Rectangular(s, n) == \A a \in LineStarts(s) : NumFields(s, a) = n

\* C5: detect_format returns JSON exactly for the well-formed JSON texts
\* whose top-level value is an object or an array; a JSON scalar and an
\* unparsable text are never JSON (they end as TABLE or PLAIN_TEXT)
C5_JsonIffStructured ==
    probeFormat # "none" =>
        /\ probeFormat \in {"JSON", "TABLE", "PLAIN_TEXT"}
        /\ (probeFormat = "JSON") <=> StructuredJson(probe)

\* a JSON array with content was classified, and so was a bare scalar
C5_Witness ==
    /\ probeFormat = "JSON"
    /\ Len(probe) >= 3
    /\ \E k \in 1..Len(probe) : probe[k] = "1"

\* C6 as stated: every rectangular grid of >= 2 lines and >= 2 fields is a
\* TABLE, and an input of one line or of one field per line never is
C6_Original ==
    probeFormat # "none" =>
        /\ (NumLines(probe) >= 2 /\ \E n \in 2..Len(probe) : Rectangular(probe, n))
              => probeFormat = "TABLE"
        /\ (NumLines(probe) <= 1 \/ \A a \in LineStarts(probe) : NumFields(probe, a) <= 1)
              => probeFormat # "TABLE"

\* C6 amended: every rectangular grid of >= 2 lines and >= 2 fields that is
\* not a well-formed JSON object or array is a TABLE, and an input of one
\* line or of one field per line never is
C6_TableIffGrid ==
    probeFormat # "none" =>
        /\ (/\ NumLines(probe) >= 2
            /\ \E n \in 2..Len(probe) : Rectangular(probe, n)
            /\ ~StructuredJson(probe))
              => probeFormat = "TABLE"
        /\ (NumLines(probe) <= 1 \/ \A a \in LineStarts(probe) : NumFields(probe, a) <= 1)
              => probeFormat # "TABLE"

\* a 2 x 2 grid was classified as TABLE
C6_Witness ==
    /\ probeFormat = "TABLE"
    /\ NumLines(probe) = 2
    /\ Rectangular(probe, 2)

(***************************************************************************)
(* Properties of the runs of main.                                         *)
(***************************************************************************)
IsGet(r) == r.method = "GET" /\ r.path = "/api/tags"

IsPost(r) == r.method = "POST" /\ r.path = "/api/generate"

\* the reply is no usable listing: no connection, a status other than 200,
\* or a body that is not JSON text
ListingFailed(res) == ~res.conn \/ res.status # 200 \/ res.body \in NonJsonListingBodies

PostIssued == \E k \in 1..Len(reqs) : IsPost(reqs[k])

\* C1: when GET /api/tags fails (no connection, non-200 status, body that is
\* not JSON) the run has ended with exit code 1, nothing on standard output,
\* standard input unread and no generation request issued
C1_ListingFailureIsFatal ==
    \A k \in 1..Len(reqs) :
        (IsGet(reqs[k]) /\ ListingFailed(reqs[k].reply)) =>
            /\ pc = "done"
            /\ exit_code = 1
            /\ out = <<>>
            /\ ~stdinRead
            /\ ~PostIssued

\* a listing with status 200 and an unparsable body ended the run
C1_Witness ==
    /\ pc = "done"
    /\ Len(reqs) = 1
    /\ reqs[1].reply.conn /\ reqs[1].reply.status = 200
    /\ reqs[1].reply.body \in NonJsonListingBodies
    /\ exit_code = 1

\* C2: every run ends with exit code 0 or 1, whatever the listing body and
\* the generation reply are
C2_ExitZeroOrOne == pc = "done" => exit_code \in {0, 1}

\* what main prints before the reply: the rendering and the separator
RenderedPart ==
    IF format \in {"JSON", "TABLE"} THEN formatted_output \o <<"\n", "\n">> ELSE <<>>

\* the class of a failed generation reply, and the sentinel that matches it
FailureSentinel(res) ==
    IF ~res.conn \/ res.status # 200 THEN ServerIssue
    ELSE IF res.body \in NonJsonGenerationBodies THEN InvalidResponse
    ELSE IF res.body \in NoResponseBodies THEN NoResponseField
    ELSE <<>>

\* C3: when POST /api/generate fails in transport, has a non-200 status, a
\* body that is not JSON, or JSON without a "response" field, the run goes
\* on to print the matching sentinel where the reply would be, and exits 0
C3_GenerationFailureIsSentinel ==
    \A k \in 1..Len(reqs) :
        (IsPost(reqs[k]) /\ FailureSentinel(reqs[k].reply) # <<>>) =>
            /\ pc \in {"print", "done"}
            /\ ai_response = FailureSentinel(reqs[k].reply)
            /\ pc = "done" =>
                  /\ exit_code = 0
                  /\ out = RenderedPart \o FailureSentinel(reqs[k].reply) \o <<"\n">>

\* a run whose generation call got a 500 has printed and ended
C3_Witness ==
    /\ pc = "done"
    /\ \E k \in 1..Len(reqs) : IsPost(reqs[k]) /\ reqs[k].reply.status = 500
    /\ format = "TABLE"

\* C4: at most two requests, in sequence: the listing first and before
\* standard input is read; the generation request at most once, after a
\* successful listing and a non-empty read of standard input; nothing else
C4_TwoSequentialRequests ==
    /\ Len(reqs) <= 2
    /\ \A k \in 1..Len(reqs) : IsGet(reqs[k]) \/ IsPost(reqs[k])
    /\ Len(reqs) >= 1 => IsGet(reqs[1]) /\ ~reqs[1].afterStdin
    /\ stdinRead => Len(reqs) >= 1 /\ ~ListingFailed(reqs[1].reply)
    /\ Len(reqs) = 2 =>
          /\ IsPost(reqs[2])
          /\ reqs[2].afterStdin
          /\ stdinRead /\ input # <<>>
          /\ ~ListingFailed(reqs[1].reply)

\* both requests were issued
C4_Witness == Len(reqs) = 2 /\ pc = "done"

\* C7 as stated: after a completed run with non-empty input, standard
\* output is the rendering, exactly one blank line, then the reply (JSON and
\* TABLE), or the reply alone (PLAIN_TEXT)
C7_OneBlankSeparatorLine ==
    (pc = "done" /\ exit_code = 0 /\ stdinRead /\ input # <<>>) =>
        IF format \in {"JSON", "TABLE"}
        THEN GetLines(out) = GetLines(formatted_output) \o << <<>> >>
                                \o GetLines(ai_response \o <<"\n">>)
        ELSE out = ai_response \o <<"\n">>

HasHelp(args) == \E i \in 1..Len(args) : args[i] \in {HelpShort, HelpLong}

HasUrlArg(args) == \E i \in 1..Len(args) : At(args[i], 1, UrlFlag)

\* C8: with -h or --help anywhere in the arguments the run prints the usage
\* text and exits 0, issues no request, does not read standard input and
\* neither opens nor changes the config file
C8_HelpTouchesNothing ==
    [][(HasHelp(argv) /\ pc \in {"main", "done"}) =>
          /\ cfg' = cfg
          /\ pc = "main" =>
                /\ pc' = "done"
                /\ exit_code' = 0
                /\ out' = UsageText
                /\ reqs' = <<>>
                /\ ~stdinRead'
                /\ ~cfgTouched']_vars

\* a help run that was also given --url= and could have written the file
C8_Witness ==
    /\ pc = "done"
    /\ HasHelp(argv)
    /\ HasUrlArg(argv)
    /\ cfgWritable
    /\ argv[1] \notin {HelpShort, HelpLong}

\* the URL of the last --url= argument
LastUrlArg(args) ==
    LET k == CHOOSE k \in 1..Len(args) :
                 At(args[k], 1, UrlFlag) /\ \A m \in (k+1)..Len(args) : ~At(args[m], 1, UrlFlag)
    IN  SubSeq(args[k], Len(UrlFlag) + 1, Len(args[k]))

\* C9 as stated: the config file changes only in a run given --url= and
\* then holds the last URL given; a run without --url= leaves it unchanged
\* and uses the URL saved by the most recent --url= run, or the default
\* http://localhost:11434 when there is none or the file cannot be read
C9_SavedUrlRoundTrip ==
    [][/\ cfg' # cfg => (pc = "get_url" /\ HasUrlArg(argv) /\ cfg'.content = LastUrlArg(argv))
       /\ (pc = "get_url" /\ ~HasUrlArg(argv)) =>
             /\ cfg' = cfg
             /\ url' = IF cfg.exists /\ cfgReadable /\ lastSaved.set
                       THEN lastSaved.url ELSE DefaultUrl]_vars

\* C10: when standard input was read and is empty, the run has printed the
\* notice "No input provided." and ended with exit code 0
C10_EmptyInputExitsZero ==
    (stdinRead /\ input = <<>>) =>
        /\ pc = "done"
        /\ exit_code = 0
        /\ out = NoInputProvided \o <<"\n">>

\* a run read an empty standard input
C10_Witness == stdinRead /\ input = <<>> /\ pc = "done" /\ listed = "ok"

(***************************************************************************)
(* The sanitizer: colour markup and backslash escapes                      *)
(***************************************************************************)
\* the text w occurs in s
Contains(s, w) == \E i \in 1..(Len(s) - Len(w) + 1) : At(s, i, w)

\* C11: for each colour c and text t without '*', an occurrence of c[**t**]
\* in the reply is rewritten to the colour code, the bold code, t and one
\* reset, and neither the colour name with its bracket nor the markup stays
C11_ColourMarkupRewritten ==
    probeOp = "Sanitize" =>
        \A k \in 1..Len(color_codes) : \A text \in MarkupTexts :
            Contains(probe, ColourMarkup(color_codes[k][1], text))
            => /\ Contains(probeOut, color_codes[k][2] \o BoldOn \o text \o Reset)
               /\ ~Contains(probeOut, color_codes[k][1] \o <<"[">>)

\* C12: the sanitized reply holds no literal backslash-n, backslash-t or
\* backslash-0-3-3
C12_NoLiteralEscapes ==
    probeOp = "Sanitize" =>
        /\ ~Contains(probeOut, <<"\\", "n">>)
        /\ ~Contains(probeOut, <<"\\", "t">>)
        /\ ~Contains(probeOut, <<"\\", "0", "3", "3">>)


(***************************************************************************)
(* format_json: key order and repeated formatting                          *)
(***************************************************************************)
RECURSIVE KeysOf(_)
\* the keys of a parsed text in the order the text has them, depth first
KeysOf(v) ==
    CASE v.t = "obj" -> Concat([k \in 1..Len(v.m) |-> <<v.m[k][1]>> \o KeysOf(v.m[k][2])])
      [] v.t = "arr" -> Concat([k \in 1..Len(v.e) |-> KeysOf(v.e[k])])
      [] OTHER -> <<>>

\* C13: the rendering of format_json has every object's keys in the order of
\* the input text
C13_KeysInInputOrder ==
    (probeOp = "format_json" /\ JsonParse(probe).ok) =>
        /\ JsonParse(probeOut).ok
        /\ KeysOf(JsonParse(probeOut).val) = KeysOf(JsonParse(probe).val)

\* C14: for valid JSON x and a fixed terminal width,
\* format_json(format_json(x)) = format_json(x)
C14_FormatJsonIdempotent ==
    (probeOp = "format_json" /\ JsonParse(probe).ok) =>
        format_json(probeOut, probeWidth) = probeOut

\* a valid object with two keys out of order and an escaped quote was rendered
C14_Witness ==
    /\ probeOp = "format_json"
    /\ probe = <<"{", "\"", "b", "\"", ":", "\"", "\\", "\"", "\"", ",",
                 "\"", "a", "\"", ":", "-", "0", "}">>
    /\ probeWidth = 120
    /\ probeOut = <<"{", "\n">> \o Spaces(4) \o <<"\"", "a", "\"", ":", " ", "0", ",", "\n">>
                  \o Spaces(4) \o <<"\"", "b", "\"", ":", " ", "\"", "\\", "\"", "\"", "\n", "}">>


(***************************************************************************)
(* format_table: alignment and the terminal-width adjustment.  A width     *)
(* below 0 stands for a size_t value of 2^63 or more (see format_table),   *)
(* which is larger than the length of any text.                            *)
(***************************************************************************)
\* the column widths before the adjustment: the longest field of each column
FieldWidths(text) ==
    [j \in 1..Len(TableRows(text)[1]) |-> MaxWidth(TableRows(text), j)]

\* total_width > width: the adjustment is applied
ShrinkApplies(text, width) == SumWidths(FieldWidths(text)) > width

Wrapped(ws) == \E j \in 1..Len(ws) : ws[j] < 0

RECURSIVE SumOf(_)
SumOf(ws) == IF ws = <<>> THEN 0 ELSE ws[1] + SumOf(Tail(ws))

\* C15: in the output of format_table the field of column j starts, in every
\* row, at the offset that is the sum of (width + 2) over the earlier columns;
\* every row is at least as long as the sum of the column widths; the rows
\* are those of the input, in order
C15_ColumnsAligned ==
    probeOp = "format_table" =>
        LET rows == TableRows(probe)
            lines == GetLines(probeOut)
        IN  /\ Len(lines) = Len(rows)
            /\ \A i \in 1..Len(rows) :
                  /\ ~Wrapped(probeWidths)
                  /\ Len(lines[i]) >= SumOf(probeWidths)
                  /\ \A j \in 1..Len(rows[i]) :
                        At(lines[i], SumWidths(SubSeq(probeWidths, 1, j - 1)) + 1,
                           SubSeq(rows[i][j], 1, Min(probeWidths[j], Len(rows[i][j]))))

\* C18: when the adjustment applies, no rendered row is longer than the
\* terminal is wide
C18_ShrunkRowsFitTerminal ==
    (probeOp = "format_table" /\ ShrinkApplies(probe, probeWidth)) =>
        \A i \in 1..Len(GetLines(probeOut)) : Len(GetLines(probeOut)[i]) <= probeWidth

\* C19: w - reduce_per_col never wraps around: after the adjustment every
\* column width w' has 5 <= w' <= max(w, 5), w being the longest field
C19_ShrinkNeverWraps ==
    (probeOp = "format_table" /\ ShrinkApplies(probe, probeWidth)) =>
        \A j \in 1..Len(probeWidths) :
            /\ 5 <= probeWidths[j]
            /\ probeWidths[j] <= Max(FieldWidths(probe)[j], 5)


(***************************************************************************)
(* The generation request: model and prompt                                *)
(***************************************************************************)
\* the listing has a non-empty "models" array
HasModels(j) ==
    /\ contains(j, ModelsKey)
    /\ member(j, ModelsKey).t = "arr"
    /\ member(j, ModelsKey).e # <<>>

\* the first entry of the listing is an object with a string "name"
FirstIsNamed(j) ==
    /\ member(j, ModelsKey).e[1].t = "obj"
    /\ contains(member(j, ModelsKey).e[1], NameKey)
    /\ member(member(j, ModelsKey).e[1], NameKey).t = "str"

\* C16: once enhance_with_ai has returned, a generation request was issued;
\* it names the "name" of the first entry of the listing, or the default
\* model when the listing has no models
C16_FirstModelOrDefault ==
    pc = "print" =>
        /\ PostIssued
        /\ \A k \in 1..Len(reqs) :
              IsPost(reqs[k]) =>
                 /\ (HasModels(models) /\ FirstIsNamed(models))
                    => reqs[k].payload.model = member(member(models, ModelsKey).e[1], NameKey).s
                 /\ ~HasModels(models) => reqs[k].payload.model = DefaultModel

\* the instruction template of a format tag; the width is part of its text
TemplateOf(fmt, width) ==
    CASE fmt = "JSON" -> DataAnalystJson \o <<ToString(width)>> \o HereIsTheData
      [] fmt = "TABLE" -> DataAnalystTable \o <<ToString(width)>> \o HereIsTheData
      [] fmt = "PLAIN_TEXT" -> OutputEnhancer \o <<ToString(width)>> \o HereIsTheOutput

\* the sentence enhance_with_ai appends to the prompt
WidthNote(width) ==
    <<"\n", "\n", "The terminal width is ", ToString(width),
      " characters. Ensure the output is formatted to fit within this width for symmetry and readability.">>

\* C17 as stated: the prompt of the generation request is the template of the
\* format tag followed by the raw standard input, which ends the prompt
C17_Original ==
    \A k \in 1..Len(reqs) :
        IsPost(reqs[k]) => reqs[k].payload.prompt = TemplateOf(format, terminal_width) \o input

\* C17 (amended): the prompt of the generation request is the template of
\* the format tag, the raw standard input unmodified, and then the
\* terminal-width sentence, which ends the prompt
C17_PromptIsTemplateInputNote ==
    \A k \in 1..Len(reqs) :
        IsPost(reqs[k]) =>
            reqs[k].payload.prompt
                = TemplateOf(format, terminal_width) \o input \o WidthNote(terminal_width)

\* a generation request was sent for a table
C17_Witness ==
    /\ PostIssued
    /\ format = "TABLE"
    /\ input = <<"a", " ", "b", "\n", "1", " ", "2", "2", "\n">>

(***************************************************************************)
(* src/eo.cpp: the inputs detect_format hands to format_table.             *)
(***************************************************************************)
\* the field counts of the lines of the text, as detect_format counts them
LineFieldCounts(text) == [k \in 1..Len(GetLines(text)) |-> Len(Fields(GetLines(text)[k]))]

\* C20: an input that detect_format of src/eo.cpp classifies as TABLE has on
\* every line the field count of its first line, and format_table uses
\* col_widths only at the indexes below rows[0].size(): it ends without a
\* fault and with one width per field of the first line
C20_TableRowsMatchFirstLine ==
    (probeOp # "none" /\ probeFormat = "TABLE") =>
        /\ \A k \in 1..Len(LineFieldCounts(probe)) :
              LineFieldCounts(probe)[k] = LineFieldCounts(probe)[1]
        /\ probeOp # "fault"
        /\ probeOp = "format_table" => Len(probeWidths) = LineFieldCounts(probe)[1]

(***************************************************************************)
(* The rewrite steps of the sanitizer, one by one.                         *)
(***************************************************************************)
\* an opening think tag with a closing think tag somewhere after it
HasThinkBlock(s) ==
    \E i \in 1..Len(s) : \E j \in (i + Len(ThinkOpen))..Len(s) :
        At(s, i, ThinkOpen) /\ At(s, j, ThinkClose)

\* C21: every <think>...</think> block is removed whatever its content: no
\* opening tag with a closing tag after it is left by the think-block step,
\* nor in the sanitized reply
C21_ThinkBlocksRemoved ==
    probeOp \in {"think", "Sanitize"} => ~HasThinkBlock(probeOut)

\* C22: the sanitized reply holds no run of three backticks
C22_NoTripleBacktick ==
    probeOp = "Sanitize" => ~Contains(probeOut, Fence)

\* the index at which the last line of s starts
LastLineStart(s) ==
    LET nl == {k \in 1..Len(s) : s[k] = "\n"}
    IN  IF nl = {} THEN 1 ELSE (CHOOSE k \in nl : \A m \in nl : k >= m) + 1

\* the reply ends with a line that starts with Note:
EndsWithNoteLine(s) == At(s, LastLineStart(s), NoteWord)

\* s without its last line and without the newlines that end the text before it
WithoutLastLine(s) ==
    LET keep == {k \in 1..(LastLineStart(s) - 1) : s[k] # "\n"}
    IN  IF keep = {} THEN <<>>
        ELSE SubSeq(s, 1, CHOOSE k \in keep : \A m \in keep : k >= m)

\* C23: the Note step removes a trailing Note: line with the blank lines before
\* it and nothing else: a reply that does not end with a Note: line is left as
\* it is, a Note: line followed by further lines included
C23_OnlyTrailingNoteRemoved ==
    probeOp = "note" =>
        probeOut = IF EndsWithNoteLine(probe) THEN WithoutLastLine(probe) ELSE probe

\* a run of underscores between two pipes
HasBorder(s) ==
    \E i \in 1..Len(s) : \E j \in (i + 2)..Len(s) :
        s[i] = "|" /\ s[j] = "|" /\ \A k \in (i + 1)..(j - 1) : s[k] = "_"

\* a line of dashes and spaces between pipes: it starts and ends with a pipe
\* and holds a dash
IsDividerRow(line) ==
    /\ Len(line) >= 3 /\ line[1] = "|" /\ line[Len(line)] = "|"
    /\ \A k \in 1..Len(line) : line[k] \in {"-", "|", " "}
    /\ \E k \in 1..Len(line) : line[k] = "-"

\* C24: the sanitized reply holds no pipe next to a space, no |___| border and
\* no divider row
C24_NoTableArtifacts ==
    probeOp = "Sanitize" =>
        /\ ~Contains(probeOut, <<"|", " ">>)
        /\ ~Contains(probeOut, <<" ", "|">>)
        /\ ~HasBorder(probeOut)
        /\ \A k \in 1..Len(GetLines(probeOut)) : ~IsDividerRow(GetLines(probeOut)[k])

\* C25: in a markdown row of two cells the divider between the cells becomes
\* two spaces: the table cleanup leaves the cells two spaces apart
C25_CellDividerBecomesTwoSpaces ==
    (probeOp = "TableCleanup" /\ probe \in MarkdownRows) =>
        Contains(probeOut, <<"a", " ", " ", "a">>)

\* a rewrite step applied to its own output gives that output again
StepIdempotent == Pass(probeOp, probeOut) = probeOut

\* C26 as stated: every rewrite step of the sanitizer is idempotent
C26_Original ==
    (\E k \in 1..Len(PassNames) : probeOp = PassNames[k]) => StepIdempotent

\* C26: the Note strip and the trim are idempotent
C26_NoteAndTrimIdempotent ==
    probeOp \in {"note", "trim"} => StepIdempotent

C26_Witness ==
    /\ probeOp = "note"
    /\ probe = <<"a", "\n">> \o NoteWord \o <<"a">>
    /\ probeOut = <<"a">>

Whitespace == {" ", "\t", "\r", "\n"}

\* C27: the sanitized reply neither begins nor ends with a space, tab,
\* carriage return or newline, and a reply of whitespace only gives the
\* empty string
C27_ResultIsTrimmed ==
    probeOp = "Sanitize" =>
        /\ probeOut # <<>> =>
              probeOut[1] \notin Whitespace /\ probeOut[Len(probeOut)] \notin Whitespace
        /\ (\A k \in 1..Len(probe) : probe[k] \in Whitespace) => probeOut = <<>>

C27_Witness ==
    /\ probeOp = "Sanitize"
    /\ probe = <<" ", "\n", "\r", "\t">>
    /\ probeOut = <<>>

(***************************************************************************)
(* The recovery from JSON input that does not parse.                       *)
(***************************************************************************)
\* the text begins like a JSON object or array
LooksStructured(s) == StripWs(s) # <<>> /\ StripWs(s)[1] \in {"{", "["}

====
